---- MODULE Spec2Model ----
(***************************************************************************)
(* The credential session manager (AuthManager, src/utils/auth-manager.ts) *)
(* of the Sitecore Search MCP server: one manager instance, its token      *)
(* storage and in-flight promise, the authentication endpoint exchanges it *)
(* starts, and the concurrent callers of getAuthHeader.                    *)
(***************************************************************************)
EXTENDS Integers, Sequences, FiniteSets, TLC

\* ------------------------------------------------------------------ bounds

\* Concurrent logical callers of getAuthHeader.
NumCallers == 2

\* Calls to the authentication endpoint in one behaviour.
MaxExchanges == 3

\* Distinct readings of the clock after the one at construction.
MaxTicks == 4

\* Calls to the authentication endpoint made by all the managers of a server
\* in one behaviour.
MaxAuthCalls == 2

\* --------------------------------------------------------------- constants

\* isAccessTokenValid: "Add 1 minute buffer before expiry".
ExpiryBuffer == 60000

\* Date.now() readings, in ms since construction: every whole buffer and one
\* second past it (0, 1000, 60000, 61000, 120000, ...).
Instant(k) == (k \div 2) * ExpiryBuffer + (k % 2) * 1000
Instants == { Instant(k) : k \in 0..MaxTicks }

\* "" stands for an absent (or empty, equally falsy) API key.
ApiKeys == {"", "01-KEY"}

\* AuthScope[] values given to the constructor (duplicate-free lists).
ScopeLists ==
    { <<"ingestion">>, <<"discover", "ingestion">>, <<"discover", "event", "ingestion">> }

\* accessTokenExpiry / refreshTokenExpiry given to the constructor (ms).
AccessLifetimes == {60000, 120000}
RefreshLifetimes == {120000}

\* What the authentication endpoint may answer to a refresh: an access
\* token, which is a string, the empty string included.
AccessTokens == {"", "A1", "A2"}

\* What it may answer to a generation: << accessToken, refreshToken,
\* accessTokenExpiry, refreshTokenExpiry >>.  The lifetimes are the server's
\* and need not be the requested ones: two ordinary pairs, a short access
\* lifetime, an empty access token, and an access token outliving the refresh
\* token.
TokenResponses ==
    { <<"A1", "R1", 120000, 120000>>,
      <<"A2", "R2", 120000, 120000>>,
      <<"A1", "R1", 60000, 120000>>,
      <<"", "R2", 120000, 120000>>,
      <<"A2", "R1", 120000, 60000>> }

VARIABLES
    apiKey,               \* constructor: this.apiKey
    scopes,               \* constructor: this.scopes
    accessTokenExpiry,    \* constructor: this.accessTokenExpiry
    refreshTokenExpiry,   \* constructor: this.refreshTokenExpiry
    tokenStorage,         \* this.tokenStorage
    tokenRefreshPromise,  \* this.tokenRefreshPromise: 0, or an index of exchanges
    now,                  \* Date.now()
    exchanges,            \* the calls made to the authentication endpoint
    returned,             \* what the step just taken handed back to a getAuthHeader caller
    reported              \* what the step just taken handed back to a getTokenStatus caller

\* The server around the managers (modelled in the second part of this module).
VARIABLES
    serverConfig,      \* this.config
    authManagers,      \* this.authManagers: domain -> index into instances, 0 = no entry
    searchClients,     \* this.searchClients: domain -> [created, authManager]
    ingestionClients,  \* this.ingestionClients
    eventsClients,     \* this.eventsClients
    instances,         \* the AuthManager objects constructed so far
    authCalls,         \* the calls those objects made to the authentication endpoint
    sent               \* what the step just taken did with a client's request

\* The handling of tool calls by the server (modelled in the third part of
\* this module).
VARIABLES
    toolCalls,         \* the number of CallTool requests handled so far
    toolRequest,       \* request.params of the request just handled
    toolResponse,      \* what the handler did with it: the result returned, or a throw
    invoked            \* the client methods invoked while handling it

tools == << toolCalls, toolRequest, toolResponse, invoked >>

server == << serverConfig, authManagers, searchClients, ingestionClients,
             eventsClients, instances, authCalls, sent, tools >>

vars == << apiKey, scopes, accessTokenExpiry, refreshTokenExpiry, tokenStorage,
           tokenRefreshPromise, now, exchanges, returned, reported, server >>

config == << apiKey, scopes, accessTokenExpiry, refreshTokenExpiry >>

\* tokenStorage = undefined
Undefined ==
    [ has |-> FALSE, accessToken |-> "", refreshToken |-> "",
      accessTokenExpiresAt |-> 0, refreshTokenExpiresAt |-> 0 ]

TokenStorage(at, rt, ae, re) ==
    [ has |-> TRUE, accessToken |-> at, refreshToken |-> rt,
      accessTokenExpiresAt |-> ae, refreshTokenExpiresAt |-> re ]

Includes(s, x) == \E i \in 1..Len(s) : s[i] = x

\* ------------------------------------------------------ validity predicates

\* Mutant: the comparison is the wrong way round.
IsAccessTokenValidInverted ==
    IF ~tokenStorage.has THEN FALSE
    ELSE now > tokenStorage.accessTokenExpiresAt - ExpiryBuffer

\* Mutant: the one-minute buffer is left out.
IsAccessTokenValidNoBuffer ==
    IF ~tokenStorage.has THEN FALSE
    ELSE now < tokenStorage.accessTokenExpiresAt

IsAccessTokenValid ==
    IF ~tokenStorage.has THEN FALSE
    ELSE now < tokenStorage.accessTokenExpiresAt - ExpiryBuffer

\* Mutant: the refresh token still counts as valid at its expiry instant.
IsRefreshTokenValidInclusive ==
    IF ~tokenStorage.has THEN FALSE
    ELSE now <= tokenStorage.refreshTokenExpiresAt

IsRefreshTokenValid ==
    IF ~tokenStorage.has THEN FALSE
    ELSE now < tokenStorage.refreshTokenExpiresAt

\* getTokenStatus(): the value it returns.
GetTokenStatus ==
    [ hasTokens |-> tokenStorage.has,
      accessTokenValid |-> IsAccessTokenValid,
      refreshTokenValid |-> IsRefreshTokenValid ]

\* ------------------------------------------------------------ getAuthHeader

NoHeaders == {}
RawKeyHeader == { <<"Authorization", apiKey>> }
BearerHeader(token) == { <<"Authorization", "Bearer " \o token>> }

\* Mutant: the access token is sent without the Bearer prefix.
HeaderForTokenNoPrefix(token) ==
    IF token # "" THEN { <<"Authorization", token>> } ELSE RawKeyHeader

\* getAuthHeader, after getAccessToken has produced a value: a truthy token
\* is sent as a bearer credential, anything else falls back to the API key.
HeaderForToken(token) ==
    IF token # "" THEN BearerHeader(token) ELSE RawKeyHeader

\* The step is not a getTokenStatus call.
NoStatus == << >>

\* The step completes no getAuthHeader call.
ReturnsNothing ==
    /\ returned' = [ outcome |-> "none", headers |-> NoHeaders ]
    /\ reported' = NoStatus

Returns(headers) ==
    /\ returned' = [ outcome |-> "returned", headers |-> headers ]
    /\ reported' = NoStatus

Throws ==
    /\ returned' = [ outcome |-> "threw", headers |-> NoHeaders ]
    /\ reported' = NoStatus

\* A call made to the authentication endpoint and the promise made for it
\* (the one kept in tokenRefreshPromise and handed to the callers).
\*   status:  "pending", then "fulfilled" or "rejected";
\*   value:   the access token a fulfilled promise carries;
\*   waiters: the getAuthHeader calls suspended on the promise.
NewExchange(kind) ==
    [ kind |-> kind, status |-> "pending", value |-> "", waiters |-> 1 ]

\* A settled promise nobody awaits any more is unreachable: its entry keeps
\* only the kind of call that was made.
Released(kind) ==
    [ kind |-> kind, status |-> "released", value |-> "", waiters |-> 0 ]

\* getAuthHeader calls suspended at `await this.getAccessToken()`.
Suspended(i) == exchanges[i].waiters

RECURSIVE SuspendedUpTo(_)
SuspendedUpTo(n) == IF n = 0 THEN 0 ELSE Suspended(n) + SuspendedUpTo(n - 1)

SuspendedCalls == SuspendedUpTo(Len(exchanges))

\* getAccessToken, branch (a): hand the outstanding promise to the caller.
JoinExchange(i) ==
    /\ exchanges' = [exchanges EXCEPT ![i].waiters = @ + 1]
    /\ ReturnsNothing /\ UNCHANGED << tokenStorage, tokenRefreshPromise >>

\* getAccessToken, branches (c) and (d): start the exchange, keep its promise
\* in tokenRefreshPromise and hand that promise to the caller.
StartExchange(kind) ==
    /\ Len(exchanges) < MaxExchanges
    /\ exchanges' = Append(exchanges, NewExchange(kind))
    /\ tokenRefreshPromise' = Len(exchanges) + 1
    /\ ReturnsNothing /\ UNCHANGED << tokenStorage >>

\* Mutant: branch (a) is missing, the outstanding promise is not looked at.
GetAccessTokenNoJoin ==
    IF tokenStorage.has /\ IsAccessTokenValid
    THEN /\ Returns(HeaderForToken(tokenStorage.accessToken))
         /\ UNCHANGED << tokenStorage, tokenRefreshPromise, exchanges >>
    ELSE IF tokenStorage.has /\ IsRefreshTokenValid
    THEN StartExchange("refresh")
    ELSE StartExchange("generate")

\* Mutant: the cached token is reused whenever a pair is stored.
GetAccessTokenNoExpiryCheck ==
    IF tokenRefreshPromise # 0
    THEN JoinExchange(tokenRefreshPromise)
    ELSE IF tokenStorage.has
    THEN /\ Returns(HeaderForToken(tokenStorage.accessToken))
         /\ UNCHANGED << tokenStorage, tokenRefreshPromise, exchanges >>
    ELSE StartExchange("generate")

GetAccessToken ==
    IF tokenRefreshPromise # 0
    THEN JoinExchange(tokenRefreshPromise)
    ELSE IF tokenStorage.has /\ IsAccessTokenValid
    THEN /\ Returns(HeaderForToken(tokenStorage.accessToken))
         /\ UNCHANGED << tokenStorage, tokenRefreshPromise, exchanges >>
    ELSE IF tokenStorage.has /\ IsRefreshTokenValid
    THEN StartExchange("refresh")
    ELSE StartExchange("generate")

\* Mutant: the ingestion special case is tested before the API key.
GetAuthHeaderScopeFirst ==
    /\ SuspendedCalls < NumCallers
    /\ IF Includes(scopes, "ingestion") /\ Len(scopes) = 1
       THEN /\ Returns(RawKeyHeader)
            /\ UNCHANGED << tokenStorage, tokenRefreshPromise, exchanges >>
       ELSE IF apiKey = ""
       THEN /\ Returns(NoHeaders)
            /\ UNCHANGED << tokenStorage, tokenRefreshPromise, exchanges >>
       ELSE GetAccessToken
    /\ UNCHANGED << server, config, now >>

\* Mutant: the ingestion special case is missing.
GetAuthHeaderNoIngestionCase ==
    /\ SuspendedCalls < NumCallers
    /\ IF apiKey = ""
       THEN /\ Returns(NoHeaders)
            /\ UNCHANGED << tokenStorage, tokenRefreshPromise, exchanges >>
       ELSE GetAccessToken
    /\ UNCHANGED << server, config, now >>

\* A caller invokes getAuthHeader and runs it up to its await (or to its
\* return, when nothing has to be awaited).
GetAuthHeader ==
    /\ SuspendedCalls < NumCallers
    /\ IF apiKey = ""
       THEN /\ Returns(NoHeaders)
            /\ UNCHANGED << tokenStorage, tokenRefreshPromise, exchanges >>
       ELSE IF Includes(scopes, "ingestion") /\ Len(scopes) = 1
       THEN /\ Returns(RawKeyHeader)
            /\ UNCHANGED << tokenStorage, tokenRefreshPromise, exchanges >>
       ELSE GetAccessToken
    /\ UNCHANGED << server, config, now >>

\* Mutant: a caller resuming on a failure is handed the stored token.
ResumeGetAuthHeaderStaleToken(i) ==
    /\ exchanges[i].waiters > 0
    /\ exchanges[i].status # "pending"
    /\ IF exchanges[i].status = "fulfilled"
       THEN Returns(HeaderForToken(exchanges[i].value))
       ELSE Returns(HeaderForToken(tokenStorage.accessToken))
    /\ exchanges' = IF exchanges[i].waiters > 1
                     THEN [exchanges EXCEPT ![i].waiters = @ - 1]
                     ELSE [exchanges EXCEPT ![i] = Released(@.kind)]
    /\ UNCHANGED << server, config, now, tokenStorage, tokenRefreshPromise >>

\* The continuation of getAuthHeader after `await this.getAccessToken()`: it
\* runs once the awaited promise has settled.  There is no try/catch around
\* the await, so a rejection leaves getAuthHeader rejected.
ResumeGetAuthHeader(i) ==
    /\ exchanges[i].waiters > 0
    /\ exchanges[i].status # "pending"
    /\ IF exchanges[i].status = "fulfilled"
       THEN Returns(HeaderForToken(exchanges[i].value))
       ELSE Throws
    /\ exchanges' = IF exchanges[i].waiters > 1
                     THEN [exchanges EXCEPT ![i].waiters = @ - 1]
                     ELSE [exchanges EXCEPT ![i] = Released(@.kind)]
    /\ UNCHANGED << server, config, now, tokenStorage, tokenRefreshPromise >>

\* --------------------------------------------------------------- event loop

\* Network completions and clock readings a second or more apart belong to
\* later turns of the event loop: they come only after the continuations of
\* every settled promise (microtasks) have run.
MicrotasksDrained ==
    \A i \in 1..Len(exchanges) :
        exchanges[i].status = "pending" \/ exchanges[i].waiters = 0

\* ------------------------------------------------------------ .finally

\* Mutant: the marker is cleared with .then, on success only.
FinallyOnSuccessOnly(status) ==
    tokenRefreshPromise' = IF status = "fulfilled" THEN 0 ELSE tokenRefreshPromise

\* The .finally callback of getAccessToken: it runs as soon as the async
\* function has settled, on success and on failure alike, before any caller
\* resumes.
Finally(status) ==
    tokenRefreshPromise' = 0

\* ------------------------------------------------- generateTokensFromApiKey

Settle(i, status, value) ==
    exchanges' = [exchanges EXCEPT ![i] = [@ EXCEPT !.status = status, !.value = value]]

\* Mutant: the two returned lifetimes are taken the wrong way round.
GenerateTokensResolvedSwapped(i, data) ==
    /\ MicrotasksDrained
    /\ exchanges[i].kind = "generate"
    /\ exchanges[i].status = "pending"
    /\ tokenStorage' = TokenStorage(data[1], data[2], now + data[4], now + data[3])
    /\ Settle(i, "fulfilled", tokenStorage'.accessToken)
    /\ Finally(exchanges'[i].status)
    /\ ReturnsNothing /\ UNCHANGED << server, config, now >>

\* axios.post resolved: store the pair and resolve with the access token.
GenerateTokensResolved(i, data) ==
    /\ MicrotasksDrained
    /\ exchanges[i].kind = "generate"
    /\ exchanges[i].status = "pending"
    /\ tokenStorage' = TokenStorage(data[1], data[2], now + data[3], now + data[4])
    /\ Settle(i, "fulfilled", tokenStorage'.accessToken)
    /\ Finally(exchanges'[i].status)
    /\ ReturnsNothing /\ UNCHANGED << server, config, now >>

\* Mutant: a failed generation is retried at once by the manager itself.
GenerateTokensRejectedRetries(i) ==
    /\ MicrotasksDrained
    /\ exchanges[i].kind = "generate"
    /\ exchanges[i].status = "pending"
    /\ Len(exchanges) < MaxExchanges
    /\ exchanges' = Append([exchanges EXCEPT ![i] = [@ EXCEPT !.status = "rejected"]],
                           [ kind |-> "generate", status |-> "pending",
                             value |-> "", waiters |-> 0 ])
    /\ tokenRefreshPromise' = Len(exchanges) + 1
    /\ ReturnsNothing /\ UNCHANGED << server, config, now, tokenStorage >>

\* axios.post rejected: log and rethrow; tokenStorage is not touched.
GenerateTokensRejected(i) ==
    /\ MicrotasksDrained
    /\ exchanges[i].kind = "generate"
    /\ exchanges[i].status = "pending"
    /\ Settle(i, "rejected", "")
    /\ Finally(exchanges'[i].status)
    /\ ReturnsNothing /\ UNCHANGED << server, config, now, tokenStorage >>

\* ------------------------------------------------------- refreshAccessToken

\* Mutant: the access token is replaced but its expiry is not recomputed.
RefreshAccessTokenResolvedKeepsExpiry(i, at) ==
    /\ MicrotasksDrained
    /\ exchanges[i].kind = "refresh"
    /\ exchanges[i].status = "pending"
    /\ IF tokenStorage.has
       THEN /\ tokenStorage' = [tokenStorage EXCEPT !.accessToken = at]
            /\ Settle(i, "fulfilled", at)
       ELSE /\ tokenStorage' = Undefined
            /\ Settle(i, "rejected", "")
    /\ Finally(exchanges'[i].status)
    /\ ReturnsNothing /\ UNCHANGED << server, config, now >>

\* Mutant: the answer of a refresh started before clearTokens is taken as a
\* success although there is no pair left to update.
RefreshAccessTokenResolvedAfterClear(i, at) ==
    /\ MicrotasksDrained
    /\ exchanges[i].kind = "refresh"
    /\ exchanges[i].status = "pending"
    /\ IF tokenStorage.has
       THEN /\ tokenStorage' = [tokenStorage EXCEPT
                                   !.accessToken = at,
                                   !.accessTokenExpiresAt = now + accessTokenExpiry]
            /\ Settle(i, "fulfilled", at)
       ELSE /\ tokenStorage' = Undefined
            /\ Settle(i, "fulfilled", at)
    /\ Finally(exchanges'[i].status)
    /\ ReturnsNothing /\ UNCHANGED << server, config, now >>

\* axios.put resolved: update the access token in place.  If tokenStorage
\* has become undefined meanwhile the assignment throws inside the try
\* block, and the catch clause runs as for a failed request.
RefreshAccessTokenResolved(i, at) ==
    /\ MicrotasksDrained
    /\ exchanges[i].kind = "refresh"
    /\ exchanges[i].status = "pending"
    /\ IF tokenStorage.has
       THEN /\ tokenStorage' = [tokenStorage EXCEPT
                                   !.accessToken = at,
                                   !.accessTokenExpiresAt = now + accessTokenExpiry]
            /\ Settle(i, "fulfilled", at)
       ELSE /\ tokenStorage' = Undefined
            /\ Settle(i, "rejected", "")
    /\ Finally(exchanges'[i].status)
    /\ ReturnsNothing /\ UNCHANGED << server, config, now >>

\* Mutant: a failed refresh rethrows without clearing the storage.
RefreshAccessTokenRejectedKeepsPair(i) ==
    /\ MicrotasksDrained
    /\ exchanges[i].kind = "refresh"
    /\ exchanges[i].status = "pending"
    /\ Settle(i, "rejected", "")
    /\ Finally(exchanges'[i].status)
    /\ ReturnsNothing /\ UNCHANGED << server, config, now, tokenStorage >>

\* axios.put rejected: clear the storage and rethrow.
RefreshAccessTokenRejected(i) ==
    /\ MicrotasksDrained
    /\ exchanges[i].kind = "refresh"
    /\ exchanges[i].status = "pending"
    /\ tokenStorage' = Undefined
    /\ Settle(i, "rejected", "")
    /\ Finally(exchanges'[i].status)
    /\ ReturnsNothing /\ UNCHANGED << server, config, now >>

\* ------------------------------------------------------------- clearTokens

\* Mutant: only the access token is blanked, the pair stays stored.
ClearTokensAccessOnly ==
    /\ tokenStorage' = IF tokenStorage.has
                       THEN [tokenStorage EXCEPT !.accessToken = ""]
                       ELSE tokenStorage
    /\ ReturnsNothing /\ UNCHANGED << server, config, now, tokenRefreshPromise, exchanges >>

\* Mutant: clearing the tokens also forgets the outstanding promise.
ClearTokensAndMarker ==
    /\ tokenStorage' = Undefined
    /\ tokenRefreshPromise' = 0
    /\ ReturnsNothing /\ UNCHANGED << server, config, now, exchanges >>

ClearTokens ==
    /\ tokenStorage' = Undefined
    /\ ReturnsNothing /\ UNCHANGED << server, config, now, tokenRefreshPromise, exchanges >>

\* ---------------------------------------------------------- getTokenStatus

\* A caller invokes getTokenStatus and is handed the three booleans.
GetTokenStatusCall ==
    /\ reported' = << GetTokenStatus >>
    /\ returned' = [ outcome |-> "none", headers |-> NoHeaders ]
    /\ UNCHANGED << server, config, now, tokenStorage, tokenRefreshPromise, exchanges >>

\* ------------------------------------------------------------------- clock

Tick ==
    /\ MicrotasksDrained
    /\ \E t \in Instants : t > now /\ now' = t /\ \A u \in Instants : u > now => t <= u
    /\ ReturnsNothing /\ UNCHANGED << server, config, tokenStorage, tokenRefreshPromise, exchanges >>

\* ----------------------------------------------------------- specification

\* No tool call is being handled.
NoResponse == [ outcome |-> "none", isError |-> FALSE, text |-> << >>, message |-> "" ]

NoToolCalls ==
    /\ toolCalls = 0 /\ toolRequest = << >>
    /\ toolResponse = NoResponse /\ invoked = << >>

\* The manager is used on its own: there is no server around it.
IdleServer ==
    /\ serverConfig = << >> /\ authManagers = << >>
    /\ searchClients = << >> /\ ingestionClients = << >> /\ eventsClients = << >>
    /\ instances = << >> /\ authCalls = << >> /\ sent = << >>
    /\ NoToolCalls

Init ==
    /\ apiKey \in ApiKeys
    /\ scopes \in ScopeLists
    /\ accessTokenExpiry \in AccessLifetimes
    /\ refreshTokenExpiry \in RefreshLifetimes
    /\ tokenStorage = Undefined
    /\ tokenRefreshPromise = 0
    /\ now = 0
    /\ exchanges = << >>
    /\ returned = [ outcome |-> "none", headers |-> NoHeaders ]
    /\ reported = NoStatus
    /\ IdleServer

Next ==
    \/ GetAuthHeader
    \/ \E i \in 1..Len(exchanges) : ResumeGetAuthHeader(i)
    \/ \E i \in 1..Len(exchanges), data \in TokenResponses : GenerateTokensResolved(i, data)
    \/ \E i \in 1..Len(exchanges) : GenerateTokensRejected(i)
    \/ \E i \in 1..Len(exchanges), at \in AccessTokens : RefreshAccessTokenResolved(i, at)
    \/ \E i \in 1..Len(exchanges) : RefreshAccessTokenRejected(i)
    \/ ClearTokens
    \/ GetTokenStatusCall
    \/ Tick

Spec == Init /\ [][Next]_vars

\* The authentication endpoint answers every call, and the continuation of
\* a getAuthHeader call whose promise has settled is run.
ExchangeCompletes ==
    \E i \in 1..Len(exchanges) :
        \/ \E data \in TokenResponses : GenerateTokensResolved(i, data)
        \/ GenerateTokensRejected(i)
        \/ \E at \in AccessTokens : RefreshAccessTokenResolved(i, at)
        \/ RefreshAccessTokenRejected(i)

LiveSpec ==
    /\ Spec
    /\ WF_vars(ExchangeCompletes)
    /\ WF_vars(\E i \in 1..Len(exchanges) : ResumeGetAuthHeader(i))

TypeOK ==
    /\ tokenRefreshPromise \in 0..Len(exchanges)
    /\ now \in Instants
    /\ SuspendedCalls <= NumCallers

\* ------------------------------------------------------------------ server

(***************************************************************************)
(* SitecoreSearchServer (src/index.ts): the configuration it loads, its    *)
(* per-domain caches of AuthManager objects and of search, ingestion and   *)
(* events clients, and the request interceptor of BaseClient               *)
(* (src/client/base-client.ts) through which every client asks its manager *)
(* for the Authorization header.  Several AuthManager objects exist here,   *)
(* so their state is kept as records, one per object.                      *)
(***************************************************************************)

\* Domains that have a configuration, and the domain ids a tool call may
\* name ("" stands for a call that names none).
Domains == {"d1", "d2"}
DomainIds == {"", "d1", "d2"}

ClientKinds == {"search", "ingestion", "events"}

\* DomainConfigSchema default of authScopes.
DefaultAuthScopes == <<"discover", "event", "ingestion">>

\* What the authentication endpoint answers as lifetimes to a generation.
ReturnedLifetimes == { <<120000, 120000>>, <<60000, 120000>> }

DomainConfig(key, authScopes) ==
    [ apiKey |-> key, authScopes |-> authScopes,
      accessTokenExpiry |-> 120000, refreshTokenExpiry |-> 120000 ]

\* The configurations loadConfig may produce: the first domain has an API
\* key, the second may have none; there may be no default domain.
ServerConfigs ==
    { [ domains |-> [ d \in Domains |->
                        IF d = "d1" THEN DomainConfig("01-KEY", s1)
                                    ELSE DomainConfig(k2, DefaultAuthScopes) ],
        defaultDomain |-> dd ] :
      s1 \in { <<"ingestion">>, DefaultAuthScopes },
      k2 \in { "", "02-KEY" },
      dd \in { "", "d1" } }

\* `domainId || this.config.defaultDomain`
ResolveDomain(domainId) ==
    IF domainId # "" THEN domainId ELSE serverConfig.defaultDomain

\* getDomainConfig finds a configuration for the domain.
HasDomainConfig(domain) == domain \in DOMAIN serverConfig.domains

\* new AuthManager(apiKey, authScopes, accessTokenExpiry, refreshTokenExpiry)
NewAuthManager(cfg) ==
    [ apiKey |-> cfg.apiKey, scopes |-> cfg.authScopes,
      accessTokenExpiry |-> cfg.accessTokenExpiry,
      refreshTokenExpiry |-> cfg.refreshTokenExpiry,
      tokenStorage |-> Undefined, tokenRefreshPromise |-> 0 ]

\* A Map without an entry for the domain, and the entry made for a client:
\* authManager is the index of the manager it was constructed with, 0 for
\* undefined.
NoClient == [ created |-> FALSE, authManager |-> 0 ]
NewClient(authManager) == [ created |-> TRUE, authManager |-> authManager ]

ClientsOf(kind) ==
    CASE kind = "search" -> searchClients
      [] kind = "ingestion" -> ingestionClients
      [] kind = "events" -> eventsClients

\* Mutant: the manager is cached under the default domain, whatever domain
\* is asked for.
GetAuthManagerDefaultKey(domain) ==
    LET cfg == serverConfig.domains[domain]
        key == IF serverConfig.defaultDomain # "" THEN serverConfig.defaultDomain
               ELSE "d1"
    IN  IF cfg.apiKey = ""
        THEN [ instances |-> instances, authManagers |-> authManagers, authManager |-> 0 ]
        ELSE IF authManagers[key] = 0
        THEN [ instances |-> Append(instances, NewAuthManager(cfg)),
               authManagers |-> [authManagers EXCEPT ![key] = Len(instances) + 1],
               authManager |-> Len(instances) + 1 ]
        ELSE [ instances |-> instances, authManagers |-> authManagers,
               authManager |-> authManagers[key] ]

\* getAuthManager(domain), for a domain that has a configuration: what it
\* returns and what it leaves in this.authManagers.
GetAuthManager(domain) ==
    LET cfg == serverConfig.domains[domain]
    IN  IF cfg.apiKey = ""
        THEN [ instances |-> instances, authManagers |-> authManagers, authManager |-> 0 ]
        ELSE IF authManagers[domain] = 0
        THEN [ instances |-> Append(instances, NewAuthManager(cfg)),
               authManagers |-> [authManagers EXCEPT ![domain] = Len(instances) + 1],
               authManager |-> Len(instances) + 1 ]
        ELSE [ instances |-> instances, authManagers |-> authManagers,
               authManager |-> authManagers[domain] ]

\* Mutant: every client is constructed with a manager of its own.
GetClientOwnManager(kind, domain) ==
    IF ClientsOf(kind)[domain].created
    THEN [ instances |-> instances, authManagers |-> authManagers,
           authManager |-> ClientsOf(kind)[domain].authManager ]
    ELSE IF serverConfig.domains[domain].apiKey = ""
    THEN [ instances |-> instances, authManagers |-> authManagers, authManager |-> 0 ]
    ELSE [ instances |-> Append(instances, NewAuthManager(serverConfig.domains[domain])),
           authManagers |-> [authManagers EXCEPT ![domain] = Len(instances) + 1],
           authManager |-> Len(instances) + 1 ]

\* getSearchClient / getIngestionClient / getEventsClient, for a resolved
\* domain: the cached client, or a new one constructed with the manager
\* getAuthManager returns.
GetClient(kind, domain) ==
    IF ClientsOf(kind)[domain].created
    THEN [ instances |-> instances, authManagers |-> authManagers,
           authManager |-> ClientsOf(kind)[domain].authManager ]
    ELSE GetAuthManager(domain)

\* ---- AuthManager, per object

IsAccessTokenValidOf(m) ==
    IF ~m.tokenStorage.has THEN FALSE
    ELSE now < m.tokenStorage.accessTokenExpiresAt - ExpiryBuffer

IsRefreshTokenValidOf(m) ==
    IF ~m.tokenStorage.has THEN FALSE
    ELSE now < m.tokenStorage.refreshTokenExpiresAt

\* getAccessToken: the branch taken.
GetAccessTokenOf(m) ==
    IF m.tokenRefreshPromise # 0 THEN "join"
    ELSE IF m.tokenStorage.has /\ IsAccessTokenValidOf(m) THEN "cached"
    ELSE IF m.tokenStorage.has /\ IsRefreshTokenValidOf(m) THEN "refresh"
    ELSE "generate"

\* Mutant: the ingestion special case is taken whenever the scopes include
\* ingestion.
GetAuthHeaderOfAnyIngestion(m) ==
    IF m.apiKey = "" THEN "empty"
    ELSE IF Includes(m.scopes, "ingestion") THEN "key"
    ELSE GetAccessTokenOf(m)

\* getAuthHeader: the branch taken.
GetAuthHeaderOf(m) ==
    IF m.apiKey = "" THEN "empty"
    ELSE IF Includes(m.scopes, "ingestion") /\ Len(m.scopes) = 1 THEN "key"
    ELSE GetAccessTokenOf(m)

\* getAuthHeader, once a token is at hand.
HeaderOf(m, token) ==
    IF token # "" THEN { <<"Authorization", "Bearer " \o token>> }
    ELSE { <<"Authorization", m.apiKey>> }

\* The tokens the authentication endpoint issues: to a generation, a pair
\* for the API key presented; to a refresh, an access token for the refresh
\* token presented.
AccessTokenFor(credential) == "AT-" \o credential
RefreshTokenFor(key) == "RT-" \o key

\* Mutant: the refresh presents the API key as its bearer credential.
NewAuthCallKeyOnRefresh(j, m, kind, caller) ==
    [ manager |-> j, kind |-> kind,
      presented |-> IF kind = "generate"
                    THEN <<"x-api-key", m.apiKey>>
                    ELSE <<"Authorization", "Bearer " \o m.apiKey>>,
      credential |-> IF kind = "generate" THEN m.apiKey
                     ELSE m.tokenStorage.refreshToken,
      body |-> IF kind = "generate"
               THEN << m.scopes, m.accessTokenExpiry, m.refreshTokenExpiry >>
               ELSE << >>,
      status |-> "pending", value |-> "", waiters |-> { caller } ]

\* A call to the authentication endpoint: the object that made it, the
\* header and the body (scope, accessExpiry, refreshExpiry; empty for a
\* refresh) it presented, the promise made for it, and the clients whose request waits
\* on that promise (a client has one request under way at a time).
NewAuthCall(j, m, kind, caller) ==
    [ manager |-> j, kind |-> kind,
      presented |-> IF kind = "generate"
                    THEN <<"x-api-key", m.apiKey>>
                    ELSE <<"Authorization", "Bearer " \o m.tokenStorage.refreshToken>>,
      credential |-> IF kind = "generate" THEN m.apiKey
                     ELSE m.tokenStorage.refreshToken,
      body |-> IF kind = "generate"
               THEN << m.scopes, m.accessTokenExpiry, m.refreshTokenExpiry >>
               ELSE << >>,
      status |-> "pending", value |-> "", waiters |-> { caller } ]

\* As Released: the entry of a settled promise no request awaits any more
\* keeps the object and the kind of call.
ReleasedCall(call) ==
    [ manager |-> call.manager, kind |-> call.kind,
      presented |-> call.presented, credential |-> call.credential,
      body |-> call.body,
      status |-> "released", value |-> "", waiters |-> {} ]

\* The client has a request suspended in its interceptor.
Waiting(caller) == \E i \in 1..Len(authCalls) : caller \in authCalls[i].waiters

\* As MicrotasksDrained: tool calls, network completions and clock readings
\* come after the continuations of every settled promise.
ServerMicrotasksDrained ==
    \A i \in 1..Len(authCalls) :
        authCalls[i].status = "pending" \/ authCalls[i].waiters = {}

\* ---- BaseClient request interceptor

NothingSent == [ outcome |-> "none", client |-> "", domain |-> "", headers |-> {} ]

\* Mutant: the interceptor sends the request without the entries it got from
\* the manager.
SendsWithoutHeaders(kind, domain, headers) ==
    sent' = [ outcome |-> "sent", client |-> kind, domain |-> domain, headers |-> {} ]

\* The request goes out with these headers added by the interceptor.
Sends(kind, domain, headers) ==
    sent' = [ outcome |-> "sent", client |-> kind, domain |-> domain, headers |-> headers ]

\* The tool call fails before any request goes out.
Fails(kind, domain) ==
    sent' = [ outcome |-> "threw", client |-> kind, domain |-> domain, headers |-> {} ]

\* The interceptor of a client whose manager is the object j of insts:
\* `await this.authManager.getAuthHeader()`, run up to its await or, when
\* nothing has to be awaited, to the sending of the request.
InterceptRequest(kind, domain, j, insts) ==
    LET m == insts[j]
        branch == GetAuthHeaderOf(m)
        caller == [ client |-> kind, domain |-> domain ]
    IN  CASE branch = "empty" ->
                /\ Sends(kind, domain, {})
                /\ instances' = insts /\ UNCHANGED authCalls
          [] branch = "key" ->
                /\ Sends(kind, domain, { <<"Authorization", m.apiKey>> })
                /\ instances' = insts /\ UNCHANGED authCalls
          [] branch = "cached" ->
                /\ Sends(kind, domain, HeaderOf(m, m.tokenStorage.accessToken))
                /\ instances' = insts /\ UNCHANGED authCalls
          [] branch = "join" ->
                /\ authCalls' = [authCalls EXCEPT
                                   ![m.tokenRefreshPromise].waiters = @ \cup { caller }]
                /\ instances' = insts /\ sent' = NothingSent
          [] branch \in {"refresh", "generate"} ->
                /\ Len(authCalls) < MaxAuthCalls
                /\ authCalls' = Append(authCalls, NewAuthCall(j, m, branch, caller))
                /\ instances' = [insts EXCEPT ![j].tokenRefreshPromise = Len(authCalls) + 1]
                /\ sent' = NothingSent

\* ---- CallToolRequest handler

ManagerVars == << config, tokenStorage, tokenRefreshPromise, exchanges, returned, reported >>

\* A tool call for a client of that kind naming that domain id: the server
\* looks the client up (constructing it, and its manager, when the domain
\* has none yet) and the client issues its request.
ToolRequest(kind, domainId) ==
    LET domain == ResolveDomain(domainId)
    IN  /\ ServerMicrotasksDrained
        /\ ~Waiting([ client |-> kind, domain |-> domain ])
        /\ IF domain = "" \/ ~HasDomainConfig(domain)
           THEN /\ Fails(kind, domain)
                /\ UNCHANGED << authManagers, searchClients, ingestionClients,
                                eventsClients, instances, authCalls >>
           ELSE LET got == GetClient(kind, domain)
                    client == NewClient(got.authManager)
                IN  /\ searchClients' = IF kind = "search"
                                        THEN [searchClients EXCEPT ![domain] = client]
                                        ELSE searchClients
                    /\ ingestionClients' = IF kind = "ingestion"
                                           THEN [ingestionClients EXCEPT ![domain] = client]
                                           ELSE ingestionClients
                    /\ eventsClients' = IF kind = "events"
                                        THEN [eventsClients EXCEPT ![domain] = client]
                                        ELSE eventsClients
                    /\ authManagers' = got.authManagers
                    /\ IF got.authManager = 0
                       THEN /\ Sends(kind, domain, {})
                            /\ instances' = got.instances /\ UNCHANGED authCalls
                       ELSE InterceptRequest(kind, domain, got.authManager, got.instances)
        /\ UNCHANGED << serverConfig, now, ManagerVars, tools >>

\* The interceptor resumes after its await: the request goes out with the
\* header, or, the awaited promise being rejected, fails unsent.
ContinueRequest(i, caller) ==
    /\ caller \in authCalls[i].waiters
    /\ authCalls[i].status # "pending"
    /\ LET m == instances[authCalls[i].manager]
       IN  IF authCalls[i].status = "fulfilled"
           THEN Sends(caller.client, caller.domain, HeaderOf(m, authCalls[i].value))
           ELSE Fails(caller.client, caller.domain)
    /\ authCalls' = IF authCalls[i].waiters # { caller }
                     THEN [authCalls EXCEPT ![i].waiters = @ \ { caller }]
                     ELSE [authCalls EXCEPT ![i] = ReleasedCall(@)]
    /\ UNCHANGED << serverConfig, authManagers, searchClients, ingestionClients,
                    eventsClients, instances, now, ManagerVars, tools >>

\* ---- completions of the calls to the authentication endpoint

SettleCall(i, status, value) ==
    authCalls' = [authCalls EXCEPT ![i] = [@ EXCEPT !.status = status, !.value = value]]

ServerFrame ==
    /\ sent' = NothingSent
    /\ UNCHANGED << serverConfig, authManagers, searchClients, ingestionClients,
                    eventsClients, now, ManagerVars, tools >>

ServerGenerateTokensResolved(i, lifetimes) ==
    LET j == authCalls[i].manager
        key == authCalls[i].credential
    IN  /\ ServerMicrotasksDrained
        /\ authCalls[i].kind = "generate" /\ authCalls[i].status = "pending"
        /\ instances' = [instances EXCEPT ![j] = [@ EXCEPT
               !.tokenStorage = TokenStorage(AccessTokenFor(key), RefreshTokenFor(key),
                                             now + lifetimes[1], now + lifetimes[2]),
               !.tokenRefreshPromise = 0]]
        /\ SettleCall(i, "fulfilled", AccessTokenFor(key))
        /\ ServerFrame

ServerGenerateTokensRejected(i) ==
    LET j == authCalls[i].manager
    IN  /\ ServerMicrotasksDrained
        /\ authCalls[i].kind = "generate" /\ authCalls[i].status = "pending"
        /\ instances' = [instances EXCEPT ![j].tokenRefreshPromise = 0]
        /\ SettleCall(i, "rejected", "")
        /\ ServerFrame

ServerRefreshAccessTokenResolved(i) ==
    LET j == authCalls[i].manager
        at == AccessTokenFor(authCalls[i].credential)
    IN  /\ ServerMicrotasksDrained
        /\ authCalls[i].kind = "refresh" /\ authCalls[i].status = "pending"
        /\ IF instances[j].tokenStorage.has
           THEN /\ instances' = [instances EXCEPT ![j] = [@ EXCEPT
                      !.tokenStorage = [@ EXCEPT
                          !.accessToken = at,
                          !.accessTokenExpiresAt = now + instances[j].accessTokenExpiry],
                      !.tokenRefreshPromise = 0]]
                /\ SettleCall(i, "fulfilled", at)
           ELSE /\ instances' = [instances EXCEPT ![j] = [@ EXCEPT
                      !.tokenStorage = Undefined, !.tokenRefreshPromise = 0]]
                /\ SettleCall(i, "rejected", "")
        /\ ServerFrame

ServerRefreshAccessTokenRejected(i) ==
    LET j == authCalls[i].manager
    IN  /\ ServerMicrotasksDrained
        /\ authCalls[i].kind = "refresh" /\ authCalls[i].status = "pending"
        /\ instances' = [instances EXCEPT ![j] = [@ EXCEPT
               !.tokenStorage = Undefined, !.tokenRefreshPromise = 0]]
        /\ SettleCall(i, "rejected", "")
        /\ ServerFrame

\* clearTokens() on the object j.
ServerClearTokens(j) ==
    /\ instances[j].tokenStorage.has
    /\ instances' = [instances EXCEPT ![j].tokenStorage = Undefined]
    /\ UNCHANGED authCalls
    /\ ServerFrame

\* The server after construction; the manager of the first part of this
\* module is not in use here.
ServerInit ==
    /\ serverConfig \in ServerConfigs
    /\ authManagers = [ d \in Domains |-> 0 ]
    /\ searchClients = [ d \in Domains |-> NoClient ]
    /\ ingestionClients = [ d \in Domains |-> NoClient ]
    /\ eventsClients = [ d \in Domains |-> NoClient ]
    /\ instances = << >>
    /\ authCalls = << >>
    /\ sent = NothingSent
    /\ NoToolCalls
    /\ now = 0
    /\ apiKey = "" /\ scopes = DefaultAuthScopes
    /\ accessTokenExpiry = 120000 /\ refreshTokenExpiry = 120000
    /\ tokenStorage = Undefined /\ tokenRefreshPromise = 0
    /\ exchanges = << >>
    /\ returned = [ outcome |-> "none", headers |-> NoHeaders ]
    /\ reported = NoStatus

ServerNext ==
    \/ \E kind \in ClientKinds, domainId \in DomainIds : ToolRequest(kind, domainId)
    \/ \E i \in 1..Len(authCalls) : \E caller \in authCalls[i].waiters :
          ContinueRequest(i, caller)
    \/ \E i \in 1..Len(authCalls), lifetimes \in ReturnedLifetimes :
          ServerGenerateTokensResolved(i, lifetimes)
    \/ \E i \in 1..Len(authCalls) : ServerGenerateTokensRejected(i)
    \/ \E i \in 1..Len(authCalls) : ServerRefreshAccessTokenResolved(i)
    \/ \E i \in 1..Len(authCalls) : ServerRefreshAccessTokenRejected(i)
    \/ \E j \in 1..Len(instances) : ServerClearTokens(j)

ServerSpec == ServerInit /\ [][ServerNext]_vars

\* ------------------------------------------------- vocabulary of the claims

\* The manager has a secret and its scope list is not the ingestion-only one.
UsesTokens == apiKey # "" /\ scopes # <<"ingestion">>

Outstanding == { i \in 1..Len(exchanges) : exchanges[i].status = "pending" }

\* Steps, as seen from outside the manager.
Started(kind) ==
    /\ Len(exchanges') = Len(exchanges) + 1
    /\ exchanges'[Len(exchanges')].kind = kind
    /\ exchanges'[Len(exchanges')].waiters = 1
    /\ \A i \in 1..Len(exchanges) : exchanges'[i] = exchanges[i]

Joined(i) ==
    /\ Len(exchanges') = Len(exchanges)
    /\ exchanges'[i].waiters = exchanges[i].waiters + 1

Fulfilled(i) ==
    exchanges[i].status = "pending" /\ exchanges'[i].status = "fulfilled"

Resumed(i) ==
    /\ exchanges[i].status # "pending"
    /\ exchanges[i].waiters > 0
    /\ Len(exchanges') = Len(exchanges)
    /\ exchanges'[i].waiters = exchanges[i].waiters - 1

ReturnedHeader(value) ==
    returned = [ outcome |-> "returned", headers |-> { <<"Authorization", value>> } ]

\* The step completes a getAuthHeader call with that Authorization value.
ReturnsHeader(value) ==
    returned' = [ outcome |-> "returned", headers |-> { <<"Authorization", value>> } ]

\* ------------------------------------------------------------------ claims

\* C1 (as claimed): with a secret and a scope list other than the
\* ingestion-only one, every getAuthHeader call that waited on a failed
\* generation or refresh returns {Authorization: <secret>} and does not throw.
C1_FailureFallsBackToSecret ==
    [][ \A i \in 1..Len(exchanges) :
            (UsesTokens /\ Resumed(i) /\ exchanges[i].status = "rejected")
                => ReturnsHeader(apiKey) ]_vars

\* C2: at most one token acquisition is outstanding at any time: every call
\* to the authentication endpoint but the latest has completed and had its
\* marker cleared, and an outstanding one is the one the marker names.
C2_AtMostOneOutstanding ==
    /\ Cardinality(Outstanding) <= 1
    /\ \A i \in Outstanding : i = Len(exchanges) /\ tokenRefreshPromise = i

\* C2 witness: a second exchange is outstanding, after the first has
\* completed, with two callers waiting on it.
C2_Witness ==
    /\ Len(exchanges) >= 2
    /\ exchanges[Len(exchanges)].status = "pending"
    /\ exchanges[Len(exchanges)].waiters >= 2

\* A getAuthHeader call that cannot use a cached token joins the outstanding
\* acquisition if there is one, and starts exactly one exchange otherwise.
CallCoalesces ==
    (GetAuthHeader /\ UsesTokens /\ ~(tokenRefreshPromise = 0 /\ IsAccessTokenValid))
        => IF tokenRefreshPromise = 0
           THEN Started("generate") \/ Started("refresh")
           ELSE Joined(tokenRefreshPromise)

\* C3 (as claimed): N calls issued while no valid token exists make one call
\* to the authentication endpoint, and when it succeeds with access token A
\* every one of them returns Bearer A.
C3_Original ==
    [][ /\ CallCoalesces
        /\ \A i \in 1..Len(exchanges) :
              /\ Fulfilled(i) => exchanges'[i].value = tokenStorage'.accessToken
              /\ (Resumed(i) /\ exchanges[i].status = "fulfilled")
                    => ReturnsHeader("Bearer " \o exchanges[i].value) ]_vars

\* C3 (amended): the same, for a non-empty access token A; with an empty one
\* every waiter returns the raw secret.
C3_Coalescing ==
    [][ /\ CallCoalesces
        /\ \A i \in 1..Len(exchanges) :
              /\ Fulfilled(i) => exchanges'[i].value = tokenStorage'.accessToken
              /\ (Resumed(i) /\ exchanges[i].status = "fulfilled")
                    => IF exchanges[i].value # ""
                       THEN ReturnsHeader("Bearer " \o exchanges[i].value)
                       ELSE ReturnsHeader(apiKey) ]_vars

\* C3 witness: one call to the endpoint has succeeded with A1 and two
\* getAuthHeader calls are about to resume on its promise.
C3_Witness ==
    /\ Len(exchanges) = 1
    /\ exchanges[1].status = "fulfilled" /\ exchanges[1].value = "A1"
    /\ exchanges[1].waiters >= 2

\* C4: provided every exchange completes, an outstanding-acquisition marker
\* is always cleared in the end, after a success and after a failure alike,
\* and it never names an acquisition that has completed, so that a later
\* call starts a new exchange instead of waiting on the old one.
C4_MarkerEventuallyCleared ==
    /\ (tokenRefreshPromise # 0) ~> (tokenRefreshPromise = 0)
    /\ [](tokenRefreshPromise # 0 => exchanges[tokenRefreshPromise].status = "pending")

\* C4 witness: the first acquisition failed and its marker was cleared; a
\* later call has started a new exchange while a caller of the failed one has
\* yet to resume.
C4_Witness ==
    /\ Len(exchanges) = 2
    /\ exchanges[1].status = "rejected"
    /\ exchanges[2].status = "pending"
    /\ tokenRefreshPromise = 2

\* C5 (as claimed): whenever a token pair is stored, the access token's
\* expiry is at most the refresh token's expiry.
C5_Original ==
    tokenStorage.has =>
        tokenStorage.accessTokenExpiresAt <= tokenStorage.refreshTokenExpiresAt

\* C5 (amended): a successful generation stores an access expiry that is at
\* most the refresh expiry exactly when the returned access lifetime is at
\* most the returned refresh lifetime; a successful refresh leaves the
\* refresh expiry as it was and sets the access expiry to the completion
\* time plus the configured access lifetime, whatever the refresh expiry is.
C5_ExpiryOrder ==
    [][ \A i \in 1..Len(exchanges) :
          /\ \A data \in TokenResponses :
                GenerateTokensResolved(i, data) =>
                    ( tokenStorage'.accessTokenExpiresAt
                          <= tokenStorage'.refreshTokenExpiresAt
                      <=> data[3] <= data[4] )
          /\ (Fulfilled(i) /\ exchanges[i].kind = "refresh") =>
                /\ tokenStorage'.refreshTokenExpiresAt
                       = tokenStorage.refreshTokenExpiresAt
                /\ tokenStorage'.accessTokenExpiresAt = now + accessTokenExpiry ]_vars

\* C5 witness: a pair generated with an access lifetime no longer than its
\* refresh lifetime, whose access expiry a refresh has moved past the
\* refresh expiry.
C5_Witness ==
    /\ Len(exchanges) = 2
    /\ exchanges[2].kind = "refresh" /\ exchanges[2].status = "fulfilled"
    /\ tokenStorage.has
    /\ tokenStorage.refreshToken = "R2"
    /\ tokenStorage.accessTokenExpiresAt > tokenStorage.refreshTokenExpiresAt

\* C6: a manager without a secret returns the empty mapping from every
\* getAuthHeader call, whatever its scopes; it never calls the authentication
\* endpoint and never has a token pair or an in-flight marker.
C6_NoSecretNoHeader ==
    apiKey = "" =>
        /\ exchanges = << >>
        /\ ~tokenStorage.has
        /\ tokenRefreshPromise = 0
        /\ returned.outcome # "threw"
        /\ returned.headers = {}

\* C6 witness: a manager without a secret whose scope list is the
\* ingestion-only one has answered a call.
C6_Witness ==
    /\ apiKey = ""
    /\ scopes = <<"ingestion">>
    /\ returned.outcome = "returned"
    /\ now > 0

FreshToken ==
    /\ UsesTokens
    /\ tokenStorage.has
    /\ now < tokenStorage.accessTokenExpiresAt - 60000

\* C8 (as claimed): while the stored access token A is more than a minute
\* from its expiry, no acquisition is outstanding and every getAuthHeader
\* call returns Bearer A without calling the authentication endpoint.
C8_Original ==
    [][ FreshToken =>
          /\ tokenRefreshPromise = 0
          /\ GetAuthHeader =>
                /\ exchanges' = exchanges
                /\ ReturnsHeader("Bearer " \o tokenStorage.accessToken) ]_vars

\* C8 (amended): the same for a non-empty access token A; an empty stored
\* access token makes the call return the raw secret, still without calling
\* the authentication endpoint.
C8_FreshTokenReuse ==
    [][ FreshToken =>
          /\ tokenRefreshPromise = 0
          /\ GetAuthHeader =>
                /\ exchanges' = exchanges
                /\ IF tokenStorage.accessToken # ""
                   THEN ReturnsHeader("Bearer " \o tokenStorage.accessToken)
                   ELSE ReturnsHeader(apiKey) ]_vars

\* C8 witness: one second after the only generation, whose callers have all
\* resumed, a call has returned the cached token.
C8_Witness ==
    /\ Len(exchanges) = 1
    /\ exchanges[1].kind = "generate" /\ exchanges[1].status = "released"
    /\ now = 1000
    /\ tokenStorage.has /\ tokenStorage.accessTokenExpiresAt = 120000
    /\ ReturnedHeader("Bearer " \o tokenStorage.accessToken)

\* An access token inside its expiry buffer (or past its expiry), a refresh
\* token still valid, nothing outstanding.
RefreshDue ==
    /\ UsesTokens
    /\ tokenStorage.has
    /\ tokenStorage.accessTokenExpiresAt - 60000 <= now
    /\ now < tokenStorage.refreshTokenExpiresAt
    /\ tokenRefreshPromise = 0

\* C9: a getAuthHeader call made at any time from T - 60000 on, with the
\* refresh token still valid and nothing outstanding, starts a refresh
\* exchange and does not return the cached token.
C9_BufferTriggersRefresh ==
    [][ (GetAuthHeader /\ RefreshDue)
            => Started("refresh") /\ returned'.outcome = "none" ]_vars

\* C9 witness: a refresh is outstanding at exactly T - 60000.
C9_Witness ==
    /\ exchanges # << >>
    /\ exchanges[Len(exchanges)].kind = "refresh"
    /\ exchanges[Len(exchanges)].status = "pending"
    /\ tokenStorage.has
    /\ now = tokenStorage.accessTokenExpiresAt - 60000

\* C10: with an invalid access token and a valid refresh token, one
\* getAuthHeader call starts exactly one refresh exchange and no generation;
\* when the refresh succeeds the refresh token and its expiry are unchanged,
\* the access token is the returned one and its expiry is the completion
\* time plus the configured access-token lifetime.
C10_RefreshPath ==
    [][ /\ (GetAuthHeader /\ RefreshDue) =>
              /\ Len(exchanges') = Len(exchanges) + 1
              /\ exchanges'[Len(exchanges')].kind = "refresh"
        /\ \A i \in 1..Len(exchanges) : \A at \in AccessTokens :
              (RefreshAccessTokenResolved(i, at) /\ Fulfilled(i)) =>
                  /\ tokenStorage.has /\ tokenStorage'.has
                  /\ tokenStorage'.refreshToken = tokenStorage.refreshToken
                  /\ tokenStorage'.refreshTokenExpiresAt
                         = tokenStorage.refreshTokenExpiresAt
                  /\ tokenStorage'.accessToken = at
                  /\ tokenStorage'.accessTokenExpiresAt = now + accessTokenExpiry
                  /\ exchanges'[i].value = at ]_vars

\* C10 witness: the pair generated first has been refreshed: it holds an
\* access token no generation pairs with its refresh token, expiring one
\* configured lifetime after the present.
C10_Witness ==
    /\ Len(exchanges) = 2
    /\ exchanges[1].kind = "generate"
    /\ exchanges[2].kind = "refresh" /\ exchanges[2].status = "fulfilled"
    /\ tokenStorage.has
    /\ tokenStorage.accessToken = "A1" /\ tokenStorage.refreshToken = "R2"
    /\ tokenStorage.accessTokenExpiresAt = now + accessTokenExpiry

\* No usable pair: none is stored, or the stored one has an access token
\* inside its buffer (or past its expiry) and a refresh token at or past its
\* expiry; nothing outstanding.
GenerationDue ==
    /\ UsesTokens
    /\ tokenRefreshPromise = 0
    /\ \/ ~tokenStorage.has
       \/ /\ tokenStorage.accessTokenExpiresAt - 60000 <= now
          /\ tokenStorage.refreshTokenExpiresAt <= now

\* C11: with no stored pair, or with a stored pair whose access token is
\* invalid and whose refresh token has expired, a getAuthHeader call with
\* nothing outstanding starts a generation exchange and never a refresh; when
\* the generation succeeds the whole pair is replaced, each expiry being the
\* completion time plus the lifetime the endpoint returned.
C11_FullRegeneration ==
    [][ /\ (GetAuthHeader /\ GenerationDue)
              => Started("generate") /\ returned'.outcome = "none"
        /\ \A i \in 1..Len(exchanges) : \A data \in TokenResponses :
              GenerateTokensResolved(i, data) =>
                  /\ Fulfilled(i)
                  /\ tokenStorage' = [ has |-> TRUE,
                                       accessToken |-> data[1],
                                       refreshToken |-> data[2],
                                       accessTokenExpiresAt |-> now + data[3],
                                       refreshTokenExpiresAt |-> now + data[4] ] ]_vars

\* C11 witness: a generation is outstanding while the stored pair, whose
\* refresh token expires at this very instant, is still there.
C11_Witness ==
    /\ Len(exchanges) = 2
    /\ exchanges[2].kind = "generate" /\ exchanges[2].status = "pending"
    /\ tokenStorage.has
    /\ now = tokenStorage.refreshTokenExpiresAt
    /\ tokenStorage.accessTokenExpiresAt - 60000 <= now

\* An exchange of that kind goes from pending to failed in this step.
Failed(i, kind) ==
    /\ exchanges[i].kind = kind
    /\ exchanges[i].status = "pending"
    /\ exchanges'[i].status = "rejected"

\* No pair is stored and no acquisition is outstanding.
NoPairIdle == ~tokenStorage.has /\ tokenRefreshPromise = 0

\* C12: when a refresh exchange fails the whole stored pair is discarded, so
\* that getTokenStatus reports hasTokens = false, and it stays discarded
\* until the next getAuthHeader call, which starts a generation exchange and
\* not another refresh.
C12_RefreshFailureDiscardsPair ==
    [][ /\ \A i \in 1..Len(exchanges) :
              Failed(i, "refresh") =>
                  /\ tokenStorage' = Undefined
                  /\ GetTokenStatus'.hasTokens = FALSE
                  /\ NoPairIdle'
        /\ (NoPairIdle /\ ~GetAuthHeader) => NoPairIdle'
        /\ (NoPairIdle /\ GetAuthHeader /\ UsesTokens) => Started("generate")
        /\ (GetTokenStatusCall /\ ~tokenStorage.has)
              => reported'[1].hasTokens = FALSE ]_vars

\* C12 witness: a refresh of a stored pair has failed, a caller of it has yet
\* to resume, nothing is stored, and another call has started a generation.
C12_Witness ==
    /\ Len(exchanges) = 3
    /\ exchanges[2].kind = "refresh" /\ exchanges[2].status = "rejected"
    /\ exchanges[3].kind = "generate" /\ exchanges[3].status = "pending"
    /\ ~tokenStorage.has

\* C13 (as claimed): when a generation exchange fails no token pair is left
\* stored, so that getTokenStatus reports hasTokens = false, whether or not
\* an expired pair was stored when the generation started.
C13_GenerationFailureLeavesNoPair ==
    [][ \A i \in 1..Len(exchanges) :
            Failed(i, "generate") =>
                /\ ~tokenStorage'.has
                /\ GetTokenStatus'.hasTokens = FALSE ]_vars

\* Nothing is outstanding and neither stored token is valid: the state a
\* failed generation leaves behind.
NeedsGeneration ==
    /\ tokenRefreshPromise = 0
    /\ ~IsAccessTokenValid
    /\ ~IsRefreshTokenValid

\* C14: a failed generation is neither cached nor retried by the manager: the
\* authentication endpoint is called only in a getAuthHeader call; from the
\* failure until the next getAuthHeader call nothing is outstanding and no
\* token is valid; that call starts exactly one generation exchange, never a
\* refresh; and that exchange can succeed, after which a caller resuming on a
\* non-empty token is handed a Bearer header.
C14_FailedGenerationRetriedOnNextCall ==
    /\ [][ /\ Len(exchanges') # Len(exchanges) => GetAuthHeader
           /\ \A i \in 1..Len(exchanges) :
                 /\ Failed(i, "generate") => NeedsGeneration'
                 /\ (Resumed(i) /\ exchanges[i].status = "fulfilled"
                                /\ exchanges[i].value # "")
                       => ReturnsHeader("Bearer " \o exchanges[i].value)
           /\ (NeedsGeneration /\ ~GetAuthHeader) => NeedsGeneration'
           /\ (NeedsGeneration /\ GetAuthHeader /\ UsesTokens)
                 => Started("generate") ]_vars
    /\ [](\A i \in 1..Len(exchanges) :
             (exchanges[i].kind = "generate" /\ exchanges[i].status = "pending"
                  /\ MicrotasksDrained)
                 => ENABLED GenerateTokensResolved(i, <<"A1", "R1", 120000, 120000>>))

\* C14 witness: the first generation failed with two callers waiting; after
\* one of them had resumed a new call started a second generation, and the
\* other has now resumed with the failure.
C14_Witness ==
    /\ Len(exchanges) = 2
    /\ exchanges[1].kind = "generate" /\ exchanges[1].status = "released"
    /\ exchanges[2].kind = "generate" /\ exchanges[2].status = "pending"
    /\ returned.outcome = "threw"

\* Any getAuthHeader call made in this state starts a generation exchange.
GeneratesOnCall == ~ENABLED (GetAuthHeader /\ ~Started("generate"))

\* Any getAuthHeader call made in this state starts a generation exchange
\* or waits on an outstanding one.
AwaitsGenerationOnCall ==
    ~ENABLED ( /\ GetAuthHeader
               /\ ~Started("generate")
               /\ ~( /\ tokenRefreshPromise # 0
                     /\ exchanges[tokenRefreshPromise].kind = "generate"
                     /\ Joined(tokenRefreshPromise) ) )

C16_CoalescedFailureShared ==
    [][ /\ CallCoalesces
        /\ \A i \in 1..Len(exchanges) :
              /\ (exchanges[i].status = "pending" /\ exchanges'[i].status = "rejected")
                    => /\ exchanges'[i].waiters = exchanges[i].waiters
                       /\ exchanges'[i].value = ""
              /\ (exchanges[i].status = "rejected" /\ exchanges[i].waiters > 0)
                    => \/ exchanges'[i] = exchanges[i]
                       \/ Resumed(i) /\ exchanges'[i].status = "rejected"
                       \/ Resumed(i) /\ exchanges'[i].status = "released"
              /\ (Resumed(i) /\ exchanges[i].status = "rejected")
                    => /\ returned'.outcome = "threw"
                       /\ returned'.headers = {} ]_vars

\* C16 witness: the only call made to the authentication endpoint has failed
\* and two callers are about to resume on it.
C16_Witness ==
    /\ Len(exchanges) = 1
    /\ exchanges[1].status = "rejected"
    /\ exchanges[1].waiters = 2

\* C17: getTokenStatus reports hasTokens = (a pair is stored),
\* accessTokenValid = (a pair is stored and now < access expiry - 60000) and
\* refreshTokenValid = (a pair is stored and now < refresh expiry, strictly
\* and without buffer), in every state and at every time: at now = refresh
\* expiry the refresh token is reported invalid, and with no pair all three
\* are false.
C17_TokenStatus ==
    [][ GetTokenStatusCall =>
          /\ Len(reported') = 1
          /\ reported'[1].hasTokens = tokenStorage.has
          /\ reported'[1].accessTokenValid
                = (tokenStorage.has /\ now < tokenStorage.accessTokenExpiresAt - 60000)
          /\ reported'[1].refreshTokenValid
                = (tokenStorage.has /\ now < tokenStorage.refreshTokenExpiresAt)
          /\ (tokenStorage.has /\ now = tokenStorage.refreshTokenExpiresAt)
                => reported'[1].refreshTokenValid = FALSE
          /\ ~tokenStorage.has
                => reported'[1] = [ hasTokens |-> FALSE,
                                    accessTokenValid |-> FALSE,
                                    refreshTokenValid |-> FALSE ] ]_vars

\* C17 witness: getTokenStatus was called at the very instant the stored
\* refresh token expires and reported a stored pair with the refresh token
\* invalid.
C17_Witness ==
    /\ tokenStorage.has
    /\ now = tokenStorage.refreshTokenExpiresAt
    /\ reported = << [ hasTokens |-> TRUE,
                       accessTokenValid |-> FALSE,
                       refreshTokenValid |-> FALSE ] >>

\* C18: the auxiliary operations make no network call: getTokenStatus leaves
\* the token pair and the in-flight marker as they are, and clearTokens sets
\* the token pair absent and leaves the in-flight marker, the secret, the
\* scope list and the configured lifetimes as they are.
C18_AuxiliaryOperationsFrame ==
    [][ /\ GetTokenStatusCall =>
              /\ exchanges' = exchanges
              /\ tokenStorage' = tokenStorage
              /\ tokenRefreshPromise' = tokenRefreshPromise
        /\ ClearTokens =>
              /\ exchanges' = exchanges
              /\ tokenStorage' = Undefined
              /\ tokenRefreshPromise' = tokenRefreshPromise
              /\ apiKey' = apiKey /\ scopes' = scopes
              /\ accessTokenExpiry' = accessTokenExpiry
              /\ refreshTokenExpiry' = refreshTokenExpiry ]_vars

\* C18 witness: the pair was cleared while the refresh of it is outstanding,
\* the marker still naming that refresh, and getTokenStatus was then called.
C18_Witness ==
    /\ tokenRefreshPromise = 2
    /\ exchanges[2].kind = "refresh" /\ exchanges[2].status = "pending"
    /\ ~tokenStorage.has
    /\ reported # << >>

\* ------------------------------------------------------ claims on the server

\* C19 (as claimed): every request the ingestion client of a domain that has
\* an API key sends carries Authorization: <api-key>, without a Bearer
\* prefix and never an access token, whatever scopes the domain is
\* configured with, the default three included.
C19_IngestionClientSendsApiKey ==
    ( /\ sent.outcome = "sent"
      /\ sent.client = "ingestion"
      /\ serverConfig.domains[sent.domain].apiKey # "" )
        => sent.headers
               = { <<"Authorization", serverConfig.domains[sent.domain].apiKey>> }

\* The object getAuthManager keeps for the domain, 0 when it keeps none.
ManagerOf(d) == authManagers[d]

\* The step changes the token pair or the in-flight marker of the manager
\* kept for the domain.
Touches(e) ==
    /\ ManagerOf(e) # 0
    /\ \/ instances'[ManagerOf(e)].tokenStorage # instances[ManagerOf(e)].tokenStorage
       \/ instances'[ManagerOf(e)].tokenRefreshPromise
              # instances[ManagerOf(e)].tokenRefreshPromise

\* The step is an operation on the manager of a domain other than e: a tool
\* request for that domain or the continuation of one, the success or
\* failure of a generation or a refresh that manager started, or clearTokens
\* on it.
OperationOnAnother(e) ==
    \/ \E kind \in ClientKinds, domainId \in DomainIds :
          ResolveDomain(domainId) # e /\ ToolRequest(kind, domainId)
    \/ \E i \in 1..Len(authCalls) :
          \/ \E caller \in authCalls[i].waiters :
                caller.domain # e /\ ContinueRequest(i, caller)
          \/ /\ authCalls[i].manager # ManagerOf(e)
             /\ \/ \E lifetimes \in ReturnedLifetimes :
                      ServerGenerateTokensResolved(i, lifetimes)
                \/ ServerGenerateTokensRejected(i)
                \/ ServerRefreshAccessTokenResolved(i)
                \/ ServerRefreshAccessTokenRejected(i)
    \/ \E j \in 1..Len(instances) : j # ManagerOf(e) /\ ServerClearTokens(j)

\* The Authorization values made of the domain's own secret and of the
\* tokens issued to it: the key, and the access tokens a generation with the
\* key or a refresh with its refresh token returns.
OwnAuthorizations(d) ==
    LET key == serverConfig.domains[d].apiKey
    IN  { key, "Bearer " \o AccessTokenFor(key),
          "Bearer " \o AccessTokenFor(RefreshTokenFor(key)) }

\* Every manager object is kept for exactly one domain, constructed from that
\* domain's configuration, and every client of a domain holds that object.
OneManagerPerDomain ==
    /\ \A j \in 1..Len(instances) :
          \E d \in Domains :
              /\ authManagers[d] = j
              /\ instances[j].apiKey = serverConfig.domains[d].apiKey
              /\ \A e \in Domains \ { d } : authManagers[e] # j
    /\ \A kind \in ClientKinds, d \in Domains :
          ClientsOf(kind)[d].created => ClientsOf(kind)[d].authManager = authManagers[d]

\* A header sent for a domain holds nothing but that domain's secret or a
\* token issued to it.
HeaderOfOwnDomain ==
    sent.outcome = "sent" =>
        \A h \in sent.headers :
            h[1] = "Authorization" /\ h[2] \in OwnAuthorizations(sent.domain)

\* C20: managers of different domains share no mutable state. Each manager
\* object belongs to one domain; a tool request, the continuation of a
\* request, the success or failure of a generation or a refresh, and
\* clearTokens, on one domain's manager, leave the token pair and the
\* in-flight marker of every other domain's manager unchanged; and a header
\* sent for a domain never holds another domain's secret or token.
C20_TenantIsolation ==
    /\ [](OneManagerPerDomain /\ HeaderOfOwnDomain)
    /\ [][ \A e \in Domains : Touches(e) => ~OperationOnAnother(e) ]_vars

\* Two domains have a manager each; a request of the one has just gone out
\* with the access token its manager stores while the other's manager has an
\* acquisition outstanding.
C20_Witness ==
    \E d \in Domains, e \in Domains :
        /\ d # e /\ ManagerOf(d) # 0 /\ ManagerOf(e) # 0
        /\ instances[ManagerOf(d)].tokenStorage.has
        /\ instances[ManagerOf(e)].tokenRefreshPromise # 0
        /\ sent.outcome = "sent" /\ sent.domain = d
        /\ sent.headers = { <<"Authorization",
                              "Bearer " \o instances[ManagerOf(d)].tokenStorage.accessToken>> }

\* ------------------------------------------ claims on the manager, continued

\* The header just returned carries the stored access token as a bearer
\* credential.
ReturnedStoredToken ==
    /\ UsesTokens
    /\ tokenStorage.has
    /\ ReturnedHeader("Bearer " \o tokenStorage.accessToken)

\* C21 (as claimed): a Bearer header is never returned for an access token
\* that is within one minute of its expiry at the moment of the return,
\* whatever access lifetime was configured or returned by the endpoint.
C21_Original ==
    ReturnedStoredToken => now < tokenStorage.accessTokenExpiresAt - 60000

\* C21 (amended): a Bearer header returned without waiting on an acquisition
\* carries a token more than one minute from its expiry; a token just
\* acquired is more than one minute from its expiry exactly when the lifetime
\* used for it (returned by the endpoint on generation, configured on
\* refresh) exceeds one minute, and it is handed to the callers waiting on
\* the acquisition either way, at the instant of its completion.
C21_BufferAtReturn ==
    [][ /\ (GetAuthHeader /\ UsesTokens /\ returned'.outcome = "returned")
              => /\ tokenStorage.has
                 /\ now < tokenStorage.accessTokenExpiresAt - 60000
        /\ \A i \in 1..Len(exchanges) :
              /\ \A data \in TokenResponses :
                    GenerateTokensResolved(i, data) =>
                        ( now' < tokenStorage'.accessTokenExpiresAt - 60000
                          <=> data[3] > 60000 )
              /\ \A at \in AccessTokens :
                    (RefreshAccessTokenResolved(i, at) /\ Fulfilled(i)) =>
                        ( now' < tokenStorage'.accessTokenExpiresAt - 60000
                          <=> accessTokenExpiry > 60000 )
              /\ (exchanges[i].status = "fulfilled" /\ exchanges[i].waiters > 0)
                    => /\ now' = now
                       /\ tokenStorage' = tokenStorage \/ tokenStorage' = Undefined
              /\ (Resumed(i) /\ exchanges[i].status = "fulfilled"
                             /\ exchanges[i].value # "")
                    => ReturnsHeader("Bearer " \o exchanges[i].value) ]_vars

\* C21 witness: a caller that waited on a generation answered with a
\* one-minute access lifetime has been handed the token at the instant of
\* the completion, exactly one minute before its expiry.
C21_Witness ==
    /\ ReturnedStoredToken
    /\ exchanges[Len(exchanges)].kind = "generate"
    /\ now = tokenStorage.accessTokenExpiresAt - 60000

\* The conditions the branches of getAccessToken test, in the claim's words.
AcquisitionOutstanding == tokenRefreshPromise # 0
AccessTokenUsable ==
    tokenStorage.has /\ now < tokenStorage.accessTokenExpiresAt - 60000
RefreshTokenUsable ==
    tokenStorage.has /\ now < tokenStorage.refreshTokenExpiresAt

\* The step hands the stored access token (or, it being empty, the secret)
\* back without touching the exchanges.
ReturnsCached ==
    /\ exchanges' = exchanges
    /\ returned'.outcome = "returned"
    /\ returned'.headers = IF tokenStorage.accessToken # ""
                           THEN { <<"Authorization", "Bearer " \o tokenStorage.accessToken>> }
                           ELSE { <<"Authorization", apiKey>> }

\* C22: the four branches of getAccessToken are tested in order and exclude
\* one another: a call joins the outstanding acquisition if there is one;
\* else it returns the cached token, with no call to the authentication
\* endpoint, if the access token is valid, even when the refresh token has
\* expired; else it starts a refresh if a pair is stored and its refresh
\* token is valid; else it starts a generation. A call to the endpoint is
\* started by nothing else.
C22_BranchOrder ==
    [][ /\ Len(exchanges') # Len(exchanges) =>
              /\ GetAuthHeader /\ UsesTokens
              /\ ~AcquisitionOutstanding /\ ~AccessTokenUsable
              /\ Started("refresh") <=> RefreshTokenUsable
              /\ Started("generate") <=> ~RefreshTokenUsable
        /\ (GetAuthHeader /\ UsesTokens) =>
              /\ AcquisitionOutstanding =>
                    /\ Joined(tokenRefreshPromise)
                    /\ returned'.outcome = "none"
              /\ (~AcquisitionOutstanding /\ AccessTokenUsable) => ReturnsCached
              /\ (~AcquisitionOutstanding /\ ~AccessTokenUsable /\ RefreshTokenUsable)
                    => Started("refresh") /\ returned'.outcome = "none"
              /\ (~AcquisitionOutstanding /\ ~AccessTokenUsable /\ ~RefreshTokenUsable)
                    => Started("generate") /\ returned'.outcome = "none" ]_vars

\* C22 witness: a call has returned the cached access token at an instant at
\* which the refresh token has already expired.
C22_Witness ==
    /\ ReturnedStoredToken
    /\ AccessTokenUsable
    /\ tokenStorage.refreshTokenExpiresAt <= now
    /\ tokenRefreshPromise = 0

\* ------------------------------------------ claims on the server, continued

\* The interceptor of that client resumes in this step on the settled
\* promise of the call i.
RequestResumed(i, caller) ==
    /\ caller \in authCalls[i].waiters
    /\ authCalls[i].status # "pending"
    /\ caller \notin authCalls'[i].waiters

\* C23 (as claimed): when the acquisition a request of a domain with an API
\* key waited on has failed, the request is sent all the same, with the raw
\* secret as Authorization; the failure does not abort it.
C23_RequestSentAfterFailedAcquisition ==
    [][ \A i \in 1..Len(authCalls) : \A caller \in authCalls[i].waiters :
            (RequestResumed(i, caller) /\ authCalls[i].status = "rejected") =>
                sent' = [ outcome |-> "sent", client |-> caller.client,
                          domain |-> caller.domain,
                          headers |-> { <<"Authorization",
                                          serverConfig.domains[caller.domain].apiKey>> } ]
      ]_vars

\* The calls of the managers to the authentication endpoint on whose promise
\* a request of that client is suspended.
AwaitedBy(caller) == { i \in 1..Len(authCalls) : caller \in authCalls[i].waiters }

\* What getAuthHeader of the manager object returns when it has nothing to
\* wait for: the secret for the ingestion-only scope list, else the stored
\* access token as a bearer credential.
MappingAtHand(m) ==
    IF m.scopes = <<"ingestion">>
    THEN { <<"Authorization", m.apiKey>> }
    ELSE { <<"Authorization", "Bearer " \o m.tokenStorage.accessToken>> }

\* What it returns to a caller that waited on an acquisition resolved with
\* that access token.
MappingFor(token) == { <<"Authorization", "Bearer " \o token>> }

\* C24: every request a client with a manager sends comes after exactly one
\* getAuthHeader call on that manager made for it, and goes out with every
\* entry of the mapping that call returned: either the call returned without
\* waiting, in the step that issues the request, or the request was
\* suspended on the promise of exactly one acquisition of that manager and
\* goes out when its interceptor resumes on it. A request is never suspended
\* on two promises, and a client without a manager sends no Authorization
\* header.
C24_HeaderSetBeforeSend ==
    /\ [](\A kind \in ClientKinds, d \in Domains :
             Cardinality(AwaitedBy([ client |-> kind, domain |-> d ])) <= 1)
    /\ [][ sent'.outcome = "sent" =>
             LET caller == [ client |-> sent'.client, domain |-> sent'.domain ]
                 j == authManagers'[sent'.domain]
             IN  IF j = 0
                 THEN sent'.headers = {} /\ AwaitedBy(caller) = {}
                 ELSE \/ /\ AwaitedBy(caller) = {}
                         /\ authCalls' = authCalls
                         /\ sent'.headers = MappingAtHand(instances'[j])
                      \/ \E i \in AwaitedBy(caller) :
                            /\ AwaitedBy(caller) = { i }
                            /\ RequestResumed(i, caller)
                            /\ authCalls[i].manager = j
                            /\ authCalls[i].status = "fulfilled"
                            /\ sent'.headers = MappingFor(authCalls[i].value)
         ]_vars

\* C24 witness: two clients of one domain were suspended on the same
\* acquisition; the request of one has just gone out with the Bearer header
\* and the other's is still suspended.
C24_Witness ==
    /\ sent.outcome = "sent"
    /\ \E i \in 1..Len(authCalls) :
          /\ authCalls[i].status = "fulfilled"
          /\ authCalls[i].waiters # {}
          /\ sent.headers = MappingFor(authCalls[i].value)
          /\ \A caller \in authCalls[i].waiters : caller.domain = sent.domain

\* The acquisitions of the manager kept for the domain that are outstanding.
OutstandingFor(d) ==
    { i \in 1..Len(authCalls) :
          authCalls[i].status = "pending" /\ authCalls[i].manager = authManagers[d] }

\* C25: the server keeps at most one AuthManager per domain for its whole
\* lifetime: the objects constructed are the ones the registry names, one
\* per domain, and an entry once made is never replaced; a domain without an
\* API key never gets one; the search, ingestion and events clients of a
\* domain all hold the object the registry names for it; so at most one
\* acquisition is outstanding per domain, and a request of any client of a
\* domain with an outstanding acquisition is suspended on that one and
\* starts none.
C25_OneManagerPerDomainShared ==
    /\ []( /\ Len(instances) = Cardinality({ d \in Domains : authManagers[d] # 0 })
           /\ \A d \in Domains, e \in Domains :
                 (d # e /\ authManagers[d] # 0) => authManagers[d] # authManagers[e]
           /\ \A d \in Domains :
                 /\ serverConfig.domains[d].apiKey = "" => authManagers[d] = 0
                 /\ \A kind \in ClientKinds :
                       ClientsOf(kind)[d].created
                           => ClientsOf(kind)[d].authManager = authManagers[d]
                 /\ Cardinality(OutstandingFor(d)) <= 1 )
    /\ [][ \A d \in Domains :
              /\ authManagers[d] # 0 => authManagers'[d] = authManagers[d]
              /\ \A kind \in ClientKinds :
                    ClientsOf(kind)[d].created
                        => ClientsOf(kind)'[d] = ClientsOf(kind)[d]
              /\ \A i \in OutstandingFor(d) : \A kind \in ClientKinds :
                    ( \E domainId \in DomainIds :
                          ResolveDomain(domainId) = d /\ ToolRequest(kind, domainId) )
                        => /\ Len(authCalls') = Len(authCalls)
                           /\ sent' = NothingSent
                           /\ [ client |-> kind, domain |-> d ] \in authCalls'[i].waiters
         ]_vars

\* C25 witness: the search client and the ingestion client of one domain are
\* suspended on the same acquisition of that domain's manager.
C25_Witness ==
    \E i \in 1..Len(authCalls), d \in Domains :
        /\ authCalls[i].status = "pending"
        /\ authCalls[i].manager = authManagers[d]
        /\ [ client |-> "search", domain |-> d ] \in authCalls[i].waiters
        /\ [ client |-> "ingestion", domain |-> d ] \in authCalls[i].waiters

\* The step starts a call of that kind to the authentication endpoint.
CallStarted(kind) ==
    /\ Len(authCalls') = Len(authCalls) + 1
    /\ authCalls'[Len(authCalls')].kind = kind

\* C26: a refresh presents the refresh token stored at the time, as a Bearer
\* credential in Authorization, with an empty body, and never the secret; a
\* generation presents the secret in x-api-key, with the scope list and the
\* two lifetimes its manager was configured with, and never a refresh token;
\* so the secret reaches the authentication endpoint in generations only.
C26_CredentialsPresented ==
    /\ [](\A i \in 1..Len(authCalls) :
             LET call == authCalls[i]
                 m == instances[call.manager]
             IN  /\ call.kind = "generate" =>
                       /\ call.presented = <<"x-api-key", m.apiKey>>
                       /\ call.body = << m.scopes, m.accessTokenExpiry, m.refreshTokenExpiry >>
                 /\ call.kind = "refresh" =>
                       /\ call.presented[1] = "Authorization"
                       /\ call.presented[2] # m.apiKey
                       /\ call.presented[2] # "Bearer " \o m.apiKey
                       /\ call.body = << >>
                 /\ call.kind \in {"generate", "refresh"})
    /\ [][ /\ CallStarted("refresh") =>
                LET call == authCalls'[Len(authCalls')]
                IN  /\ instances[call.manager].tokenStorage.has
                    /\ call.presented
                         = <<"Authorization",
                             "Bearer " \o instances[call.manager].tokenStorage.refreshToken>>
           /\ CallStarted("generate") =>
                LET call == authCalls'[Len(authCalls')]
                IN  \A j \in 1..Len(instances) :
                        instances[j].tokenStorage.has =>
                            /\ call.presented[2] # instances[j].tokenStorage.refreshToken
                            /\ call.presented[2]
                                 # "Bearer " \o instances[j].tokenStorage.refreshToken
         ]_vars

\* C26 witness: a manager that generated its pair has a refresh outstanding
\* which presented the stored refresh token.
C26_Witness ==
    \E i \in 1..Len(authCalls) :
        /\ authCalls[i].kind = "refresh" /\ authCalls[i].status = "pending"
        /\ instances[authCalls[i].manager].tokenStorage.has
        /\ authCalls[i].presented
             = <<"Authorization",
                 "Bearer " \o instances[authCalls[i].manager].tokenStorage.refreshToken>>

\* ---------------------------------------- claims on clearTokens in flight

\* A refresh is outstanding and the pair it was to update has been cleared.
RefreshOrphaned(i) ==
    /\ exchanges[i].kind = "refresh" /\ exchanges[i].status = "pending"
    /\ ~tokenStorage.has

\* C27: once clearTokens has been called while a refresh is outstanding, no
\* pair is stored until that refresh completes; the refresh then fails, with
\* every caller still waiting on it, even when the authentication endpoint
\* answers with a token; every one of those callers resumes with the failure;
\* no pair is stored afterwards until the next getAuthHeader call, which
\* starts a generation.
C27_ClearDuringRefresh ==
    [][ /\ \A i \in 1..Len(exchanges) :
              /\ (ClearTokens /\ exchanges[i].kind = "refresh"
                              /\ exchanges[i].status = "pending")
                    => RefreshOrphaned(i)'
              /\ RefreshOrphaned(i) =>
                    /\ ~tokenStorage'.has
                    /\ exchanges'[i].status \in {"pending", "rejected"}
                    /\ exchanges'[i].waiters >= exchanges[i].waiters
                    /\ \A at \in AccessTokens :
                          RefreshAccessTokenResolved(i, at) =>
                              /\ exchanges'[i].status = "rejected"
                              /\ exchanges'[i].waiters = exchanges[i].waiters
                              /\ NoPairIdle'
              /\ (Resumed(i) /\ exchanges[i].status = "rejected")
                    => returned'.outcome = "threw"
        /\ (NoPairIdle /\ ~GetAuthHeader) => NoPairIdle'
        /\ (NoPairIdle /\ GetAuthHeader /\ UsesTokens)
              => Started("generate") /\ ~Started("refresh") ]_vars

\* C27 witness: two callers wait on a refresh whose pair has been cleared.
C27_Witness ==
    \E i \in 1..Len(exchanges) :
        /\ RefreshOrphaned(i)
        /\ exchanges[i].waiters = 2
        /\ tokenRefreshPromise = i

\* A generation is outstanding and no pair is stored.
GenerationPendingNoPair(i) ==
    /\ exchanges[i].kind = "generate" /\ exchanges[i].status = "pending"
    /\ ~tokenStorage.has

\* C28: clearTokens does not cancel an outstanding generation: it leaves the
\* exchange and the marker as they are; a getAuthHeader call made between
\* the clear and the completion joins the outstanding exchange and starts
\* none; and when the exchange succeeds the pair it returned is stored
\* (hasTokens = true) in that very step, without any further call.
C28_ClearDoesNotCancelGeneration ==
    [][ \A i \in 1..Len(exchanges) :
          /\ (ClearTokens /\ exchanges[i].kind = "generate"
                          /\ exchanges[i].status = "pending")
                => /\ GenerationPendingNoPair(i)'
                   /\ exchanges' = exchanges
                   /\ tokenRefreshPromise' = tokenRefreshPromise
                   /\ tokenRefreshPromise = i
          /\ GenerationPendingNoPair(i) =>
                /\ (GetAuthHeader /\ UsesTokens) =>
                      /\ Joined(i)
                      /\ ~Started("generate") /\ ~Started("refresh")
                      /\ returned'.outcome = "none"
                /\ \A data \in TokenResponses :
                      GenerateTokensResolved(i, data) =>
                          /\ Fulfilled(i)
                          /\ Len(exchanges') = Len(exchanges)
                          /\ tokenStorage'.has
                          /\ GetTokenStatus'.hasTokens = TRUE
                          /\ tokenStorage'.accessToken = data[1]
                          /\ tokenStorage'.refreshToken = data[2] ]_vars

\* C28 witness: an earlier generation had stored a pair; no pair is stored
\* now, a second generation is outstanding and a second caller has joined it.
C28_Witness ==
    /\ Len(exchanges) = 2
    /\ exchanges[1].kind = "generate" /\ exchanges[1].status = "released"
    /\ GenerationPendingNoPair(2)
    /\ exchanges[2].waiters = 2
    /\ returned.outcome = "none"

\* A pair is stored whose access token is not more than a minute from its
\* expiry.
AccessTokenInBuffer ==
    tokenStorage.has /\ tokenStorage.accessTokenExpiresAt - 60000 <= now

\* C29: an access token whose expiry was computed from a lifetime of at most
\* 60000 ms (the one the endpoint returned, on generation; the configured
\* one, on refresh) is inside its buffer from the instant it is stored and
\* stays there for as long as it is stored, so that getTokenStatus never
\* reports it valid; every getAuthHeader call made meanwhile with nothing
\* outstanding starts a call to the authentication endpoint and hands no
\* cached token back.
C29_ShortLifetimeNeverCached ==
    [][ /\ \A i \in 1..Len(exchanges) :
              /\ \A data \in TokenResponses :
                    (GenerateTokensResolved(i, data) /\ data[3] <= 60000)
                        => AccessTokenInBuffer'
              /\ \A at \in AccessTokens :
                    ( /\ RefreshAccessTokenResolved(i, at) /\ Fulfilled(i)
                      /\ accessTokenExpiry <= 60000 )
                        => AccessTokenInBuffer'
        /\ (AccessTokenInBuffer /\ tokenStorage' = tokenStorage)
              => /\ AccessTokenInBuffer'
                 /\ GetTokenStatus'.accessTokenValid = FALSE
        /\ (AccessTokenInBuffer /\ GetTokenStatusCall)
              => reported'[1].accessTokenValid = FALSE
        /\ (AccessTokenInBuffer /\ UsesTokens /\ tokenRefreshPromise = 0 /\ GetAuthHeader)
              => /\ Started("refresh") \/ Started("generate")
                 /\ returned'.outcome = "none" ]_vars

\* C29 witness: under a configured access lifetime of one minute the pair
\* generated first has been refreshed once and, at the instant of that
\* refresh, the next call has started another refresh.
C29_Witness ==
    /\ accessTokenExpiry = 60000
    /\ Len(exchanges) = 3
    /\ exchanges[2].kind = "refresh" /\ exchanges[2].status = "released"
    /\ exchanges[3].kind = "refresh" /\ exchanges[3].status = "pending"
    /\ tokenStorage.has
    /\ tokenStorage.accessTokenExpiresAt = now + 60000

\* The mapping getAuthHeader makes of the access token it obtained.
OneAuthorization(token) ==
    IF token # ""
    THEN { <<"Authorization", "Bearer " \o token>> }
    ELSE { <<"Authorization", apiKey>> }

\* C30: for a manager with a secret and a scope list other than the
\* ingestion-only one, whatever getAuthHeader returns normally has exactly
\* one entry, keyed Authorization: 'Bearer ' followed by the access token an
\* acquisition resolved with (the one the call waited on or, for a call
\* answered from the cache, the one that stored the pair), or the raw
\* secret, and the raw secret only when that access token is empty.
C30_ReturnedMapping ==
    [][ UsesTokens =>
          /\ returned'.outcome = "returned" =>
                /\ Cardinality(returned'.headers) = 1
                /\ \A h \in returned'.headers : h[1] = "Authorization"
                /\ \/ /\ GetAuthHeader /\ tokenStorage.has
                      /\ returned'.headers = OneAuthorization(tokenStorage.accessToken)
                   \/ \E i \in 1..Len(exchanges) :
                         /\ Resumed(i) /\ exchanges[i].status = "fulfilled"
                         /\ returned'.headers = OneAuthorization(exchanges[i].value)
          /\ ReturnsHeader(apiKey) =>
                \/ GetAuthHeader /\ tokenStorage.has /\ tokenStorage.accessToken = ""
                \/ \E i \in 1..Len(exchanges) :
                      /\ Resumed(i) /\ exchanges[i].status = "fulfilled"
                      /\ exchanges[i].value = ""
          /\ \A i \in 1..Len(exchanges) :
                Fulfilled(i) => exchanges'[i].value = tokenStorage'.accessToken
          /\ (tokenStorage'.has /\ tokenStorage'.accessToken # tokenStorage.accessToken)
                => \E i \in 1..Len(exchanges) : Fulfilled(i) ]_vars

\* C30 witness: a call answered from the cache, whose stored access token is
\* the empty one a generation resolved with, has returned the raw secret.
C30_Witness ==
    /\ UsesTokens
    /\ ReturnedHeader(apiKey)
    /\ tokenStorage.has /\ tokenStorage.accessToken = ""
    /\ \A i \in 1..Len(exchanges) : exchanges[i].status = "released"
    /\ now > 0

\* -------------------------------------------------------------- tool calls

(***************************************************************************)
(* The CallTool request handler of SitecoreSearchServer (src/index.ts),    *)
(* the tool functions it routes to (src/tools), the schema validation they *)
(* start with (src/utils/errors.ts), getDomainConfig (src/config.ts) and   *)
(* the client methods they end in (src/client).  Tool calls are handled    *)
(* one at a time, each in one step: the exchange with the Sitecore API is  *)
(* kept to its outcome, and the acquisition of the Authorization header    *)
(* for it is the subject of the second part of this module.                *)
(***************************************************************************)

\* The number of tool calls handled in a behaviour.
MaxToolCalls == 2

\* The names under which the tools are registered.
SearchTools ==
    { "sitecore_search_query", "sitecore_search_with_facets",
      "sitecore_get_recommendations", "sitecore_ai_search" }
PagedTools == { "sitecore_search_query", "sitecore_search_with_facets" }
IngestionTools ==
    { "sitecore_create_document", "sitecore_update_document",
      "sitecore_delete_document", "sitecore_ingest_from_source",
      "sitecore_check_ingestion_status" }
EventsTools == { "sitecore_track_event", "sitecore_validate_event" }
ToolNames == SearchTools \cup IngestionTools \cup EventsTools

\* A name no tool is registered under.
UnknownTool == "sitecore_reindex"

\* The kind of client the handler hands to the tool.
KindOf(name) ==
    CASE name \in SearchTools -> "search"
      [] name \in IngestionTools -> "ingestion"
      [] name \in EventsTools -> "events"

\* config.domains is a plain object: a key it does not have itself is looked
\* up in Object.prototype, so config.domains["constructor"] is a function.
ObjectPrototypeKeys == { "constructor" }

\* The keys of the server's Maps, and the domain ids a tool call may name:
\* the configured domains, a domain without configuration, and a property
\* name of Object.prototype.
ToolDomainKeys == Domains \cup ObjectPrototypeKeys
ToolDomainIds == Domains \cup { "d3" } \cup ObjectPrototypeKeys

\* A domain configuration with its clientKey ("" for one that has none).
ToolDomainConfig(key, clientKey) ==
    [ apiKey |-> key, clientKey |-> clientKey, authScopes |-> DefaultAuthScopes,
      accessTokenExpiry |-> 120000, refreshTokenExpiry |-> 120000 ]

\* The configurations loadConfig may produce: the first domain has an API
\* key and may have a client key, the second has a client key and no API
\* key; there may be no default domain.
ToolConfigs ==
    { [ domains |-> [ d \in Domains |->
                        IF d = "d1" THEN ToolDomainConfig("01-KEY", ck1)
                                    ELSE ToolDomainConfig("", "ck-2") ],
        defaultDomain |-> dd ] :
      ck1 \in { "", "ck-1" },
      dd \in { "", "d1" } }

\* ---- the arguments of a tool call

\* A field the arguments do not have, and one they have.
NotGiven == << >>
Given(v) == << v >>

\* `field ?? d`: the value of a field, d for one that is not given.
ValueOr(field, d) == IF field = NotGiven THEN d ELSE field[1]

\* `n || d` on numbers: 0 is falsy.
NumberOr(n, d) == IF n = 0 THEN d ELSE n

\* `s || d` on strings: "" is falsy.
StringOr(s, d) == IF s = "" THEN d ELSE s

\* The fields of the arguments the handler and the tools branch on;
\* restValid says that every other field is as its schema wants it.
NoFields ==
    [ domainId |-> NotGiven, domain |-> NotGiven, page |-> NotGiven,
      limit |-> NotGiven, partial |-> NotGiven, customerKey |-> NotGiven,
      sourceType |-> NotGiven, restValid |-> TRUE ]

DomainFields == { NotGiven } \cup { Given(d) : d \in ToolDomainIds }
PageFields == { NotGiven, Given(0), Given(3) }
LimitFields == { NotGiven, Given(0), Given(10) }
PartialFields == { NotGiven, Given(TRUE), Given(FALSE) }
CustomerKeyFields == { NotGiven, Given(""), Given("ck-9") }
SourceTypeFields == { Given("file"), Given("url") }

ArgumentsFor(name) ==
    CASE name \in PagedTools ->
           { [NoFields EXCEPT !.domainId = d, !.restValid = v,
                              !.page = p, !.limit = l] :
             d \in DomainFields, v \in BOOLEAN, p \in PageFields, l \in LimitFields }
      [] name \in SearchTools \ PagedTools ->
           { [NoFields EXCEPT !.domainId = d, !.restValid = v] :
             d \in DomainFields, v \in BOOLEAN }
      [] name = "sitecore_update_document" ->
           { [NoFields EXCEPT !.domain = d, !.restValid = v, !.partial = p] :
             d \in DomainFields, v \in BOOLEAN, p \in PartialFields }
      [] name = "sitecore_ingest_from_source" ->
           { [NoFields EXCEPT !.domain = d, !.restValid = v, !.sourceType = s] :
             d \in DomainFields, v \in BOOLEAN, s \in SourceTypeFields }
      [] name \in IngestionTools
                    \ { "sitecore_update_document", "sitecore_ingest_from_source" } ->
           { [NoFields EXCEPT !.domain = d, !.restValid = v] :
             d \in DomainFields, v \in BOOLEAN }
      [] name = "sitecore_track_event" ->
           { [NoFields EXCEPT !.domainId = d, !.restValid = v, !.customerKey = k] :
             d \in DomainFields, v \in BOOLEAN, k \in CustomerKeyFields }
      [] name = "sitecore_validate_event" ->
           { [NoFields EXCEPT !.domainId = d, !.restValid = v] :
             d \in DomainFields, v \in BOOLEAN }
      [] OTHER -> { NoFields }

\* request.params of a CallTool request: a call has arguments or has none.
ToolRequests ==
    UNION { { [ name |-> n, hasArguments |-> TRUE, arguments |-> a ] :
              a \in ArgumentsFor(n) } : n \in ToolNames \cup { UnknownTool } }
    \cup { [ name |-> n, hasArguments |-> FALSE, arguments |-> NoFields ] :
           n \in { "sitecore_search_query", "sitecore_track_event", UnknownTool } }

\* How the Sitecore API (or the acquisition of the Authorization header for
\* the request) ends a request made to it.
HttpOutcomes == { "ok", "error" }

\* ---- errors

\* The messages of the errors thrown, up to the names they mention.
NoArgumentsError == "No arguments provided"
UnknownToolError == "Unknown tool"
NoDomainError == "No domain ID provided and no default domain configured"
DomainNotFoundError == "Domain configuration not found"
NoClientKeyError == "Client key not configured for domain"
ValidationError == "Validation error"
NoCustomerKeyError == "Customer key is required"
ApiError == "Sitecore API error"

\* What a function does: it returns (error is "") or throws an Error with
\* the message; invoked lists the client methods it has invoked.
Succeeds(calls) == [ error |-> "", invoked |-> calls ]
FailsWith(message, calls) == [ error |-> message, invoked |-> calls ]

\* ---- config

\* config.domains[key]: the domain's own configuration, a property inherited
\* from Object.prototype, or undefined.
DomainsEntry(cfg, key) ==
    IF key \in DOMAIN cfg.domains THEN [ is |-> "config", of |-> key ]
    ELSE IF key \in ObjectPrototypeKeys THEN [ is |-> "inherited", of |-> key ]
    ELSE [ is |-> "undefined", of |-> key ]

\* getDomainConfig(config, domainId): the value returned, or the error
\* thrown.  A domainId of "" stands for one that is not given.
GetDomainConfig(cfg, domainId) ==
    LET targetDomain == StringOr(domainId, cfg.defaultDomain)
        domainConfig == DomainsEntry(cfg, targetDomain)
    IN  IF targetDomain = ""
        THEN [ error |-> NoDomainError, value |-> domainConfig ]
        ELSE IF domainConfig.is = "undefined"
        THEN [ error |-> DomainNotFoundError, value |-> domainConfig ]
        ELSE [ error |-> "", value |-> domainConfig ]

\* domainConfig.clientKey of what getDomainConfig returned: a function
\* inherited from Object.prototype has no such property.
ClientKeyOf(cfg, entry) ==
    IF entry.is = "config" THEN cfg.domains[entry.of].clientKey ELSE ""

\* getClientKey(domainId)
GetClientKey(domainId) ==
    LET domain == ResolveDomain(domainId)
        domainConfig == GetDomainConfig(serverConfig, domain)
    IN  IF domain = "" THEN [ error |-> NoDomainError, key |-> "" ]
        ELSE IF domainConfig.error # "" THEN [ error |-> domainConfig.error, key |-> "" ]
        ELSE IF ClientKeyOf(serverConfig, domainConfig.value) = ""
        THEN [ error |-> NoClientKeyError, key |-> "" ]
        ELSE [ error |-> "", key |-> ClientKeyOf(serverConfig, domainConfig.value) ]

\* getSearchClient / getIngestionClient / getEventsClient (domainId): the
\* domain the client is cached under, the manager it holds, and what the
\* call leaves in this.authManagers; or the error thrown.
ClientFor(kind, domainId) ==
    LET domain == ResolveDomain(domainId)
        domainConfig == GetDomainConfig(serverConfig, domain)
        kept == [ instances |-> instances, authManagers |-> authManagers,
                  authManager |-> 0 ]
    IN  IF domain = ""
        THEN [ error |-> NoDomainError, domain |-> domain, got |-> kept ]
        ELSE IF domain \in DOMAIN ClientsOf(kind) /\ ClientsOf(kind)[domain].created
        THEN [ error |-> "", domain |-> domain, got |-> GetClient(kind, domain) ]
        ELSE IF domainConfig.error # ""
        THEN [ error |-> domainConfig.error, domain |-> domain, got |-> kept ]
        ELSE IF domainConfig.value.is = "inherited"
        THEN [ error |-> "", domain |-> domain, got |-> kept ]
        ELSE [ error |-> "", domain |-> domain, got |-> GetClient(kind, domain) ]

\* ---- validation

\* schema.parse(input) succeeds: the required fields are there and every
\* field has the type its schema declares.
Parses(name, input) ==
    /\ input.restValid
    /\ name \in SearchTools => input.domainId # NotGiven
    /\ name \in IngestionTools => input.domain # NotGiven
    /\ name = "sitecore_ingest_from_source" => input.sourceType # NotGiven

\* DefaultPage, DefaultLimit: `.default(1)` and `.default(24)` of the schemas
\* of the paged searches.
DefaultPage == 1
DefaultLimit == 24

\* Mutant: the input is not checked against the schema.
ValidateInputUnchecked(name, input) ==
    [ error |-> "",
      params |->
        [ domainId |-> ValueOr(input.domainId, ""),
          domain |-> ValueOr(input.domain, ""),
          page |-> ValueOr(input.page, DefaultPage),
          limit |-> ValueOr(input.limit, DefaultLimit),
          partial |-> ValueOr(input.partial, FALSE),
          customerKey |-> ValueOr(input.customerKey, ""),
          sourceType |-> ValueOr(input.sourceType, "") ] ]

\* validateInput(schema, input): the parsed parameters, with the defaults
\* of the schema for the fields that are not given, or a Validation error.
ValidateInput(name, input) ==
    IF ~Parses(name, input)
    THEN [ error |-> ValidationError, params |-> NoFields ]
    ELSE [ error |-> "",
           params |->
             [ domainId |-> ValueOr(input.domainId, ""),
               domain |-> ValueOr(input.domain, ""),
               page |-> ValueOr(input.page, DefaultPage),
               limit |-> ValueOr(input.limit, DefaultLimit),
               partial |-> ValueOr(input.partial, FALSE),
               customerKey |-> ValueOr(input.customerKey, ""),
               sourceType |-> ValueOr(input.sourceType, "") ] ]

\* ---- clients

\* BaseClient.get / post / put / patch / delete: one request through axios;
\* an error of the request is rethrown by handleApiError.  The call is
\* recorded with how the request ended.
HttpRequest(client, method, verb, url, body, http) ==
    LET call == [ client |-> client.kind, owner |-> client.domain,
                  method |-> method, verb |-> verb, url |-> url, body |-> body,
                  ended |-> http ]
    IN  IF http = "ok" THEN Succeeds(<< call >>) ELSE FailsWith(ApiError, << call >>)

\* SearchClient.search(domainId, request)
Search(client, domainId, request, http) ==
    HttpRequest(client, "search", "POST", << "/discover/v2", domainId >>, request, http)

\* IngestionClient
CreateDocumentOf(client, domain, http) ==
    HttpRequest(client, "createDocument", "POST", << "documents", domain >>, << >>, http)
UpdateDocumentOf(client, domain, http) ==
    HttpRequest(client, "updateDocument", "PUT", << "documents", domain >>, << >>, http)
PatchDocumentOf(client, domain, http) ==
    HttpRequest(client, "patchDocument", "PATCH", << "documents", domain >>, << >>, http)
DeleteDocumentOf(client, domain, http) ==
    HttpRequest(client, "deleteDocument", "DELETE", << "documents", domain >>, << >>, http)
CreateDocumentFromFile(client, domain, http) ==
    HttpRequest(client, "createDocumentFromFile", "POST", << "file", domain >>, << >>, http)
CreateDocumentFromUrl(client, domain, http) ==
    HttpRequest(client, "createDocumentFromUrl", "POST", << "url", domain >>, << >>, http)
GetStatus(client, domain, http) ==
    HttpRequest(client, "getStatus", "GET", << "status", domain >>, << >>, http)

\* EventsClient
TrackEventOf(client, customerKey, http) ==
    HttpRequest(client, "trackEvent", "POST", << "/event/v4/publish", customerKey >>,
                << >>, http)
ValidateEventOf(client, http) ==
    HttpRequest(client, "validateEvent", "POST", << "/event/v4/validate" >>, << >>, http)

\* ---- tools

\* The request body of the paged searches: offset and limit.
SearchRequest(params) ==
    << (NumberOr(params.page, 1) - 1) * NumberOr(params.limit, 24),
       NumberOr(params.limit, 24) >>

ExecuteBasicSearch(client, input, http) ==
    LET v == ValidateInput("sitecore_search_query", input)
    IN  IF v.error # "" THEN FailsWith(v.error, << >>)
        ELSE Search(client, v.params.domainId, SearchRequest(v.params), http)

ExecuteFacetedSearch(client, input, http) ==
    LET v == ValidateInput("sitecore_search_with_facets", input)
    IN  IF v.error # "" THEN FailsWith(v.error, << >>)
        ELSE Search(client, v.params.domainId, SearchRequest(v.params), http)

GetRecommendations(client, input, http) ==
    LET v == ValidateInput("sitecore_get_recommendations", input)
    IN  IF v.error # "" THEN FailsWith(v.error, << >>)
        ELSE Search(client, v.params.domainId, << >>, http)

GetAiSearchResults(client, input, http) ==
    LET v == ValidateInput("sitecore_ai_search", input)
    IN  IF v.error # "" THEN FailsWith(v.error, << >>)
        ELSE Search(client, v.params.domainId, << >>, http)

CreateDocument(client, input, http) ==
    LET v == ValidateInput("sitecore_create_document", input)
    IN  IF v.error # "" THEN FailsWith(v.error, << >>)
        ELSE CreateDocumentOf(client, v.params.domain, http)

\* Mutant: the document is replaced whatever `partial` says.
UpdateDocumentAlwaysPut(client, input, http) ==
    LET v == ValidateInput("sitecore_update_document", input)
    IN  IF v.error # "" THEN FailsWith(v.error, << >>)
        ELSE UpdateDocumentOf(client, v.params.domain, http)

UpdateDocument(client, input, http) ==
    LET v == ValidateInput("sitecore_update_document", input)
    IN  IF v.error # "" THEN FailsWith(v.error, << >>)
        ELSE IF v.params.partial
        THEN PatchDocumentOf(client, v.params.domain, http)
        ELSE UpdateDocumentOf(client, v.params.domain, http)

DeleteDocument(client, input, http) ==
    LET v == ValidateInput("sitecore_delete_document", input)
    IN  IF v.error # "" THEN FailsWith(v.error, << >>)
        ELSE DeleteDocumentOf(client, v.params.domain, http)

IngestFromSource(client, input, http) ==
    LET v == ValidateInput("sitecore_ingest_from_source", input)
    IN  IF v.error # "" THEN FailsWith(v.error, << >>)
        ELSE IF v.params.sourceType = "file"
        THEN CreateDocumentFromFile(client, v.params.domain, http)
        ELSE CreateDocumentFromUrl(client, v.params.domain, http)

CheckIngestionStatus(client, input, http) ==
    LET v == ValidateInput("sitecore_check_ingestion_status", input)
    IN  IF v.error # "" THEN FailsWith(v.error, << >>)
        ELSE GetStatus(client, v.params.domain, http)

ValidateEvent(client, input, http) ==
    LET v == ValidateInput("sitecore_validate_event", input)
    IN  IF v.error # "" THEN FailsWith(v.error, << >>)
        ELSE ValidateEventOf(client, http)

TrackEvent(client, customerKey, input, http) ==
    LET v == ValidateInput("sitecore_track_event", input)
        finalCustomerKey == StringOr(v.params.customerKey, customerKey)
    IN  IF v.error # "" THEN FailsWith(v.error, << >>)
        ELSE IF finalCustomerKey = "" THEN FailsWith(NoCustomerKeyError, << >>)
        ELSE TrackEventOf(client, finalCustomerKey, http)

\* ---- the CallTool handler

\* The field of the arguments the handler reads the domain from: `domain`
\* for the ingestion tools, `domainId` for the others.
DomainArgument(name, args) ==
    IF name \in IngestionTools THEN ValueOr(args.domain, "")
                               ELSE ValueOr(args.domainId, "")

\* The switch of the handler, for a tool that is registered: the client (and
\* for sitecore_track_event the client key) is got first, then the tool is
\* run with it.  got is what the get of the client returned.
RunTool(name, args, http) ==
    LET domainId == DomainArgument(name, args)
        clientKey == IF name = "sitecore_track_event" THEN GetClientKey(domainId)
                     ELSE [ error |-> "", key |-> "" ]
        got == ClientFor(KindOf(name), domainId)
        client == [ kind |-> KindOf(name), domain |-> got.domain ]
        ran ==
          CASE name = "sitecore_search_query" -> ExecuteBasicSearch(client, args, http)
            [] name = "sitecore_search_with_facets" -> ExecuteFacetedSearch(client, args, http)
            [] name = "sitecore_get_recommendations" -> GetRecommendations(client, args, http)
            [] name = "sitecore_ai_search" -> GetAiSearchResults(client, args, http)
            [] name = "sitecore_create_document" -> CreateDocument(client, args, http)
            [] name = "sitecore_update_document" -> UpdateDocument(client, args, http)
            [] name = "sitecore_delete_document" -> DeleteDocument(client, args, http)
            [] name = "sitecore_ingest_from_source" -> IngestFromSource(client, args, http)
            [] name = "sitecore_check_ingestion_status" -> CheckIngestionStatus(client, args, http)
            [] name = "sitecore_track_event" -> TrackEvent(client, clientKey.key, args, http)
            [] name = "sitecore_validate_event" -> ValidateEvent(client, args, http)
    IN  IF clientKey.error # ""
        THEN [ error |-> clientKey.error, invoked |-> << >>, hasClient |-> FALSE, got |-> got ]
        ELSE IF got.error # ""
        THEN [ error |-> got.error, invoked |-> << >>, hasClient |-> FALSE, got |-> got ]
        ELSE [ error |-> ran.error, invoked |-> ran.invoked, hasClient |-> TRUE, got |-> got ]

\* What the handler does with the request: it throws, or it returns a result
\* whose text is the JSON of the tool's result or of {error: message}.
Thrown(message) ==
    [ outcome |-> "threw", isError |-> FALSE, text |-> << >>, message |-> message ]
ErrorResult(message) ==
    [ outcome |-> "returned", isError |-> TRUE, text |-> << "error", message >>,
      message |-> "" ]
ToolResult ==
    [ outcome |-> "returned", isError |-> FALSE, text |-> << "result" >>, message |-> "" ]

\* this.server.setRequestHandler(CallToolRequestSchema, ...)
CallTool(request, http) ==
    /\ toolCalls < MaxToolCalls
    /\ toolResponse = NoResponse
    /\ toolCalls' = toolCalls + 1
    /\ toolRequest' = request
    /\ IF ~request.hasArguments
       THEN /\ toolResponse' = Thrown(NoArgumentsError)
            /\ invoked' = << >>
            /\ UNCHANGED << authManagers, searchClients, ingestionClients,
                            eventsClients, instances >>
       ELSE IF request.name \notin ToolNames
       THEN /\ toolResponse' = ErrorResult(UnknownToolError)
            /\ invoked' = << >>
            /\ UNCHANGED << authManagers, searchClients, ingestionClients,
                            eventsClients, instances >>
       ELSE LET ran == RunTool(request.name, request.arguments, http)
                kind == KindOf(request.name)
                set(clients, k) ==
                    IF ran.hasClient /\ k = kind
                    THEN [clients EXCEPT ![ran.got.domain] = NewClient(ran.got.got.authManager)]
                    ELSE clients
            IN  /\ toolResponse' = IF ran.error # "" THEN ErrorResult(ran.error)
                                   ELSE ToolResult
                /\ invoked' = ran.invoked
                /\ searchClients' = set(searchClients, "search")
                /\ ingestionClients' = set(ingestionClients, "ingestion")
                /\ eventsClients' = set(eventsClients, "events")
                /\ instances' = IF ran.hasClient THEN ran.got.got.instances ELSE instances
                /\ authManagers' = IF ran.hasClient THEN ran.got.got.authManagers
                                   ELSE authManagers
    /\ UNCHANGED << serverConfig, authCalls, sent, now, ManagerVars >>

ToolInit ==
    /\ serverConfig \in ToolConfigs
    /\ authManagers = [ d \in ToolDomainKeys |-> 0 ]
    /\ searchClients = [ d \in ToolDomainKeys |-> NoClient ]
    /\ ingestionClients = [ d \in ToolDomainKeys |-> NoClient ]
    /\ eventsClients = [ d \in ToolDomainKeys |-> NoClient ]
    /\ instances = << >>
    /\ authCalls = << >>
    /\ sent = NothingSent
    /\ NoToolCalls
    /\ now = 0
    /\ apiKey = "" /\ scopes = DefaultAuthScopes
    /\ accessTokenExpiry = 120000 /\ refreshTokenExpiry = 120000
    /\ tokenStorage = Undefined /\ tokenRefreshPromise = 0
    /\ exchanges = << >>
    /\ returned = [ outcome |-> "none", headers |-> NoHeaders ]
    /\ reported = NoStatus

\* The transport delivers the response (or the error of a handler that
\* threw) to the MCP client; the server is ready for the next request.
Respond ==
    /\ toolResponse # NoResponse
    /\ toolRequest' = << >>
    /\ toolResponse' = NoResponse
    /\ invoked' = << >>
    /\ UNCHANGED << toolCalls, serverConfig, authManagers, searchClients,
                    ingestionClients, eventsClients, instances, authCalls, sent,
                    now, ManagerVars >>

ToolNext ==
    \/ \E request \in ToolRequests, http \in HttpOutcomes : CallTool(request, http)
    \/ Respond

ToolSpec == ToolInit /\ [][ToolNext]_vars

\* ------------------------------------------------- claims on the tool calls

\* A tool call has been handled and its response is not delivered yet.
Handled == toolResponse # NoResponse

\* The failures of a tool call, read off the request, the configuration
\* and the calls made to the API.
MissingArguments == ~toolRequest.hasArguments
UnknownToolName == toolRequest.hasArguments /\ toolRequest.name \notin ToolNames
Routed == toolRequest.hasArguments /\ toolRequest.name \in ToolNames
UnresolvableDomain ==
    /\ Routed
    /\ GetDomainConfig(serverConfig,
                       DomainArgument(toolRequest.name, toolRequest.arguments)).error # ""
InvalidInput == Routed /\ ~Parses(toolRequest.name, toolRequest.arguments)
ApiFailure == \E i \in 1..Len(invoked) : invoked[i].ended = "error"

HandlingFailed ==
    \/ MissingArguments \/ UnknownToolName \/ UnresolvableDomain
    \/ InvalidInput \/ ApiFailure

ReturnedJsonError ==
    /\ toolResponse.outcome = "returned"
    /\ toolResponse.isError
    /\ Len(toolResponse.text) = 2 /\ toolResponse.text[1] = "error"

\* C31: every failure while handling a tool call (unknown tool name, missing
\* arguments, unresolvable domain, input validation failure, API error) is
\* returned as a result with isError = true and a JSON error message, and
\* the handler never throws.
C31_FailuresReturnedNeverThrown ==
    Handled =>
        /\ toolResponse.outcome # "threw"
        /\ HandlingFailed => ReturnedJsonError

\* The domain a routed call is about, and its own configuration.
TargetDomain ==
    ResolveDomain(DomainArgument(toolRequest.name, toolRequest.arguments))
TargetConfigured == Routed /\ TargetDomain \in DOMAIN serverConfig.domains

\* A sitecore_track_event call with valid input for a configured domain.
TrackEventCall ==
    /\ Handled /\ Routed /\ toolRequest.name = "sitecore_track_event"
    /\ TargetConfigured
    /\ Parses(toolRequest.name, toolRequest.arguments)

\* The customer key of the claim: the input's, else the configured one.
ResolvedCustomerKey ==
    StringOr(ValueOr(toolRequest.arguments.customerKey, ""),
             serverConfig.domains[TargetDomain].clientKey)

MissingCustomerKeyFailure ==
    /\ ReturnedJsonError
    /\ toolResponse.text[2] \in { NoCustomerKeyError, NoClientKeyError }

OnePublishCall(key) ==
    /\ Len(invoked) = 1
    /\ invoked[1].method = "trackEvent" /\ invoked[1].verb = "POST"
    /\ invoked[1].url = << "/event/v4/publish", key >>

\* C32: sitecore_track_event resolves the customer key as the input's
\* customerKey if given, otherwise the domain's configured client key; it
\* fails for a missing customer key only when neither provides one, and
\* otherwise issues exactly one publish call with the resolved key.
C32_CustomerKeyResolved ==
    TrackEventCall =>
        /\ MissingCustomerKeyFailure <=> ResolvedCustomerKey = ""
        /\ ResolvedCustomerKey # "" => OnePublishCall(ResolvedCustomerKey)

\* The handler got as far as running the tool function: the client (and for
\* sitecore_track_event the client key) was got without an error.
ToolRan ==
    /\ Handled /\ Routed /\ ~UnresolvableDomain
    /\ toolRequest.name = "sitecore_track_event" =>
         GetClientKey(DomainArgument(toolRequest.name, toolRequest.arguments)).error = ""

FailedValidation ==
    /\ ReturnedJsonError
    /\ toolResponse.text[2] = ValidationError

\* C33: a tool whose input fails schema validation fails with a Validation
\* error before any client method is invoked (so no HTTP request is made
\* for the call and no Authorization header is asked for); a tool whose
\* input passes validation invokes exactly one client method.
C33_ValidationBeforeClient ==
    /\ Handled /\ InvalidInput => invoked = << >>
    /\ ToolRan /\ InvalidInput => FailedValidation
    /\ ToolRan /\ ~InvalidInput => Len(invoked) = 1

C33_Witness ==
    /\ ToolRan /\ InvalidInput
    /\ FailedValidation /\ invoked = << >>
    /\ ClientsOf(KindOf(toolRequest.name))[TargetDomain].created

\* A sitecore_update_document call whose input is valid, run by the handler.
UpdateDocumentCall ==
    /\ ToolRan /\ toolRequest.name = "sitecore_update_document"
    /\ ~InvalidInput

PartialAsked == toolRequest.arguments.partial = Given(TRUE)

\* C34: updateDocument issues exactly one request per valid invocation, a
\* PATCH when partial is true and a PUT when partial is false or omitted.
C34_PatchOrPut ==
    UpdateDocumentCall =>
        /\ Len(invoked) = 1
        /\ invoked[1].client = "ingestion"
        /\ PartialAsked =>
             invoked[1].verb = "PATCH" /\ invoked[1].method = "patchDocument"
        /\ ~PartialAsked =>
             invoked[1].verb = "PUT" /\ invoked[1].method = "updateDocument"

C34_Witness ==
    /\ UpdateDocumentCall /\ PartialAsked
    /\ Len(invoked) = 1 /\ invoked[1].verb = "PATCH"

\* A basic or faceted search whose input is valid, run by the handler, and
\* the page and limit of its validated input.
PagedSearchCall ==
    /\ ToolRan /\ toolRequest.name \in PagedTools
    /\ ~InvalidInput

ValidatedPage == ValueOr(toolRequest.arguments.page, DefaultPage)
ValidatedLimit == ValueOr(toolRequest.arguments.limit, DefaultLimit)

\* C35: for basic and faceted search and every validated input, the request
\* sent has limit equal to the validated limit (default 24) and offset equal
\* to (page - 1) * limit with page defaulting to 1, for every numeric page
\* and limit the schema accepts, 0 included.
C35_OffsetAndLimit ==
    PagedSearchCall =>
        /\ Len(invoked) = 1 /\ invoked[1].method = "search"
        /\ invoked[1].body =
             << (ValidatedPage - 1) * ValidatedLimit, ValidatedLimit >>

\* getDomainConfig as the handler of a routed call applies it: to the
\* configuration of the server and the domain id of the arguments.
GivenDomainId == DomainArgument(toolRequest.name, toolRequest.arguments)
DomainConfigGot == GetDomainConfig(serverConfig, GivenDomainId)

\* The domain the claim has getDomainConfig look up: the given id, or the
\* default domain when none is given.
ClaimedTarget ==
    IF GivenDomainId # "" THEN GivenDomainId ELSE serverConfig.defaultDomain

\* C36: getDomainConfig returns the configuration stored under the given
\* domain id, or under the default domain when no id is given; it throws
\* when there is neither an id nor a default, or when the target domain has
\* no configuration; it never returns another domain's configuration.
C36_OwnConfigurationOrThrow ==
    Handled /\ Routed =>
        /\ ClaimedTarget = "" => DomainConfigGot.error = NoDomainError
        /\ ClaimedTarget # "" /\ ClaimedTarget \notin DOMAIN serverConfig.domains =>
             DomainConfigGot.error = DomainNotFoundError
        /\ ClaimedTarget \in DOMAIN serverConfig.domains =>
             /\ DomainConfigGot.error = ""
             /\ DomainConfigGot.value = [ is |-> "config", of |-> ClaimedTarget ]
        /\ DomainConfigGot.error # "" =>
             ReturnedJsonError /\ toolResponse.text[2] = DomainConfigGot.error

====
